---- MODULE Spec2Model ----
(***************************************************************************)
(* Model of rcon/extended_commands.py (class Rcon): the map-rotation       *)
(* reconciler set_maprotation acting on the game server's rotation, and    *)
(* the cache-invalidation protocol between the cached getters and the      *)
(* mutating commands.                                                      *)
(*                                                                         *)
(* Spec      : set_maprotation, one remote add/remove per step.            *)
(* SpecCache : one caller; cached getters and the mutators that            *)
(*             invalidate them, with remote failures.                      *)
(* SpecConc  : a mutating caller and a concurrent reader of the same key.  *)
(***************************************************************************)
EXTENDS Integers, Sequences, FiniteSets, TLC

\* ------------------------------------------------------------------ bounds
NumMaps == 3          \* number of distinct map names
MaxLen  == 3          \* longest rotation passed to set_maprotation
MaxMut  == 2          \* changes of remote data (getter versions) in one behaviour

MapNames == <<"A", "B", "C", "D", "E", "F">>
Maps == {MapNames[i] : i \in 1..NumMaps}

RECURSIVE SeqsUpTo(_, _)
SeqsUpTo(S, n) ==
  IF n = 0 THEN {<<>>}
  ELSE LET shorter == SeqsUpTo(S, n - 1)
       IN shorter \cup {Append(s, x) : s \in {t \in shorter : Len(t) = n - 1}, x \in S}

Range(s) == {s[i] : i \in 1..Len(s)}
NoDup(s) == Cardinality(Range(s)) = Len(s)

\* Every list a caller may pass as the desired rotation (empty and with
\* repeated maps included).
Rotations == SeqsUpTo(Maps, MaxLen)

\* The rotations the server holds before a call: not empty, no map twice.
ServerRotations == {r \in Rotations : r # <<>> /\ NoDup(r)}

\* --------------------------------------------------------------- variables
VARIABLES
  remote_rotation,   \* the rotation held by the game server
  rotation_cache,    \* ttl_cache entry of get_map_rotation: <<>> or <<list>>
  pc,                \* position inside set_maprotation
  arg,               \* the rotation argument as passed by the caller
  rotation,          \* local `rotation` (general branch: after pop(0))
  current,           \* local `current`
  idx,               \* enumerate index (0-based, as in the code)
  m,                 \* loop variable m of the single-map branch
  first,             \* local `first`
  to_remove,         \* maps of to_remove not yet removed
  ops,               \* remote add/remove operations issued by this call
  start              \* remote rotation when the call began

rotVars == <<remote_rotation, rotation_cache, pc, arg, rotation, current, idx,
             m, first, to_remove, ops, start>>

VARIABLES
  remote_version,    \* per getter: version of the data the remote would return
  cache,             \* per getter: the ttl_cache entry (NoVal or a version)
  last,              \* the last completed call and what the caller saw
  conc_reader,       \* a second caller inside a cached getter
  conc_mut           \* the mutating caller of SpecConc

cacheVars == <<remote_version, cache, last, conc_reader, conc_mut>>

VARIABLES
  log_pc,            \* position of the caller of the log operations
  raw,               \* the raw log text handed to parse_logs
  filter_action,     \* argument filter_action
  filter_player,     \* argument filter_player
  log_now,           \* the clock read by datetime.now()
  batch,             \* outcome of the last call: the returned dict, or a raise
  prev_batch,        \* outcome of the call before it on the same arguments
  log_reply,         \* what the remote get_logs did for the last call
  sort_key,          \* argument sort of get_scoreboard
  players_list,      \* logs["players"] in the order the loop enumerates it
  scoreboard         \* the list get_scoreboard returned

logVars == <<log_pc, raw, filter_action, filter_player, log_now, batch,
             prev_batch, log_reply, sort_key, players_list, scoreboard>>

VARIABLES
  adm_remote,        \* the data held by the game server that a call reads or changes
  adm_cache,         \* the ttl_cache entries of the getters a call goes through
  adm_last           \* the last completed call and what the caller saw

admVars == <<adm_remote, adm_cache, adm_last>>

NoMap == "none"
NoVal == -1

\* ------------------------------------------------------------- the remote
\* rotadd appends the map at the end of the rotation.
RemoteAdd(rot, map_name) == Append(rot, map_name)

\* rotdel deletes the named map (its first occurrence).
RECURSIVE RemoteRemove(_, _)
RemoteRemove(rot, map_name) ==
  IF rot = <<>> THEN <<>>
  ELSE IF Head(rot) = map_name THEN Tail(rot)
  ELSE <<Head(rot)>> \o RemoteRemove(Tail(rot), map_name)

\* ------------------------------------------------- cached read of rotation
\* get_map_rotation under ttl_cache: a stored value is returned as is,
\* otherwise the remote is read and the result stored.
get_map_rotation_value ==
  IF rotation_cache # <<>> THEN rotation_cache[1] ELSE remote_rotation

get_map_rotation_cache ==
  IF rotation_cache # <<>> THEN rotation_cache ELSE <<remote_rotation>>

\* do_add_map_to_rotation -> do_add_maps_to_rotation([map_name]): the remote
\* add, then the invalidation of get_map_rotation.
do_add_map_to_rotation(map_name) ==
  /\ remote_rotation' = RemoteAdd(remote_rotation, map_name)
  /\ rotation_cache' = <<>>
  /\ ops' = Append(ops, [op |-> "add", map |-> map_name])

\* do_remove_map_from_rotation -> do_remove_maps_from_rotation([map_name]).
do_remove_map_from_rotation(map_name) ==
  /\ remote_rotation' = RemoteRemove(remote_rotation, map_name)
  /\ rotation_cache' = <<>>
  /\ ops' = Append(ops, [op |-> "remove", map |-> map_name])

\* --------------------------------------------------- set_maprotation guards
\* (variant: the emptiness check is missing)
EmptyRotation_unchecked(r) == FALSE

\* `if not rotation`
EmptyRotation(r) == r = <<>>

\* (variant: the early return on an unchanged rotation is missing)
SameRotation_never(r, cur) == FALSE

\* `if rotation == current`
SameRotation(r, cur) == r = cur

\* (variant: the `idx != 0` test is missing)
ReAddNeeded_any_index(map_name, cur, i) == map_name \in Range(cur)

\* `if m in current and idx != 0`
ReAddNeeded(map_name, cur, i) == map_name \in Range(cur) /\ i # 0

\* (variant: `first` is added even when the rotation already holds it)
AddFirstNeeded_always(rem, cur) == TRUE

\* `if to_remove == set(current)`
AddFirstNeeded(rem, cur) == rem = Range(cur)

\* ------------------------------------------------- cached getters, mutators
\* The @ttl_cache getters followed here, each purged by some command.
CachedGetters ==
  {"get_vip_ids", "get_players", "get_map", "get_votekick_threshold",
   "get_map_rotation"}

\* The commands that wrap one remote mutation in `with invalidates(...)`
\* naming one of these getters.
Mutators ==
  {"do_remove_vip", "do_add_vip", "set_map", "set_votekick_threshold",
   "do_reset_votekick_threshold", "do_kick", "do_remove_map_from_rotation",
   "do_add_map_to_rotation"}

\* (variant: do_add_vip and set_map forget their invalidation)
Invalidates_forgotten(op) ==
  CASE op = "do_remove_vip"               -> {"get_vip_ids"}
    [] op = "do_add_vip"                  -> {}
    [] op = "set_map"                     -> {}
    [] op = "set_votekick_threshold"      -> {"get_votekick_threshold"}
    [] op = "do_reset_votekick_threshold" -> {"get_votekick_threshold"}
    [] op = "do_kick"                     -> {"get_players"}
    [] op = "do_remove_map_from_rotation" -> {"get_map_rotation"}
    [] op = "do_add_map_to_rotation"      -> {"get_map_rotation"}

\* The getters named in the command's `with invalidates(...)`.
Invalidates(op) ==
  CASE op = "do_remove_vip"               -> {"get_vip_ids"}
    [] op = "do_add_vip"                  -> {"get_vip_ids"}
    [] op = "set_map"                     -> {"get_map"}
    [] op = "set_votekick_threshold"      -> {"get_votekick_threshold"}
    [] op = "do_reset_votekick_threshold" -> {"get_votekick_threshold"}
    [] op = "do_kick"                     -> {"get_players"}
    [] op = "do_remove_map_from_rotation" -> {"get_map_rotation"}
    [] op = "do_add_map_to_rotation"      -> {"get_map_rotation"}

\* The remote data a command changes when it succeeds, named by the getter
\* that reads it: VIP commands change the VIP list, a kick the player list,
\* a rotation command the map rotation, a setting its own value.
Touches(op) ==
  CASE op \in {"do_remove_vip", "do_add_vip"} -> {"get_vip_ids"}
    [] op = "set_map" -> {"get_map"}
    [] op \in {"set_votekick_threshold", "do_reset_votekick_threshold"} ->
         {"get_votekick_threshold"}
    [] op = "do_kick" -> {"get_players"}
    [] op \in {"do_remove_map_from_rotation", "do_add_map_to_rotation"} ->
         {"get_map_rotation"}

\* What the remote call of a command can come back with: the reply SUCCESS,
\* a CommandFailedError raised by the command channel, and for the two
\* commands that inspect their reply a text reply that is not a success.
Raised == "CommandFailedError"
Replies(op) ==
  {"SUCCESS", Raised}
    \cup (IF op = "set_map" THEN {"FAIL"} ELSE {})
    \cup (IF op = "set_votekick_threshold" THEN {"Error: bad pairs"} ELSE {})

\* `res.lower().startswith("error")`
StartsWithError(res) == res \in {"Error: bad pairs", "error", "ERROR"}

\* (variant: set_map does not look at the reply)
BodyRaises_set_map_unchecked(op, res) ==
  \/ res = Raised
  \/ op = "set_votekick_threshold" /\ StartsWithError(res)

\* The body of the command's `with` block raises: the remote call raised, or
\* set_map got `res != "SUCCESS"`, or set_votekick_threshold got an error text.
BodyRaises(op, res) ==
  \/ res = Raised
  \/ op = "set_map" /\ res # "SUCCESS"
  \/ op = "set_votekick_threshold" /\ StartsWithError(res)

\* invalidates(...): the named getters are purged when the body has
\* succeeded and left alone when it raised.
CacheAfter(c, op, raised) ==
  IF raised THEN c
  ELSE [k \in CachedGetters |-> IF k \in Invalidates(op) THEN NoVal ELSE c[k]]

\* The remote after a command: the data it touches changes on SUCCESS only.
RemoteAfter(rv, op, res) ==
  IF res = "SUCCESS"
  THEN [k \in CachedGetters |-> IF k \in Touches(op) THEN rv[k] + 1 ELSE rv[k]]
  ELSE rv

\* ttl_cache: the value a cached getter returns, and the entry it leaves.
CachedValue(c, rv, k) == IF c[k] # NoVal THEN c[k] ELSE rv[k]

RECURSIVE SumOver(_, _)
SumOver(f, S) ==
  IF S = {} THEN 0
  ELSE LET k == CHOOSE x \in S : TRUE IN f[k] + SumOver(f, S \ {k})

Mutations == SumOver(remote_version, CachedGetters)

\* Record of a completed call: what was called, the remote's reply, whether
\* the call raised, whether a cached getter went to the remote and what it
\* returned, whether a command left the cache as it was, the entries its
\* getters had before it, and for a getter the command that came just before
\* (if any), that command's reply and the entry the key had before it.
NoPre == [k \in {} |-> NoVal]
NoCall == [kind |-> "none", name |-> "none", reply |-> "none", raised |-> FALSE,
           called |-> FALSE, value |-> NoVal, kept |-> TRUE, pre |-> NoPre,
           after |-> "none", after_reply |-> "none", before |-> NoVal]

ReaderIdle == [pc |-> "idle", key |-> "none", val |-> NoVal]
MutIdle == [pc |-> "idle", op |-> "none", key |-> "none", floor |-> NoVal,
            got |-> NoVal]

\* Variable groups at rest, for the specifications that do not use them.
RotAtRest ==
  /\ remote_rotation = <<"A">>
  /\ rotation_cache = <<>>
  /\ pc = "idle"
  /\ arg = <<>>
  /\ rotation = <<>>
  /\ current = <<>>
  /\ idx = 0
  /\ m = NoMap
  /\ first = NoMap
  /\ to_remove = {}
  /\ ops = <<>>
  /\ start = <<"A">>

CacheAtRest ==
  /\ remote_version = [k \in CachedGetters |-> 0]
  /\ cache = [k \in CachedGetters |-> NoVal]
  /\ last = NoCall
  /\ conc_reader = ReaderIdle
  /\ conc_mut = MutIdle

\* None of Python, kept apart from every text (the empty text is <<>>).
None == <<"<None>">>
NoBatch == [status |-> "none", actions |-> {}, players |-> {}, logs |-> <<>>]

LogAtRest ==
  /\ log_pc = "idle"
  /\ raw = <<>>
  /\ filter_action = None
  /\ filter_player = None
  /\ log_now = 200
  /\ batch = NoBatch
  /\ prev_batch = NoBatch
  /\ log_reply = "none"
  /\ sort_key = "ratio"
  /\ players_list = <<>>
  /\ scoreboard = <<>>

\* No admin call made yet, no entry stored.
NoEntries == [k \in {} |-> NoVal]
AdmAtRest ==
  /\ adm_remote = NoEntries
  /\ adm_cache = NoEntries
  /\ adm_last = [op |-> "none"]

\* ------------------------------------------------------------------- Init
Init ==
  /\ remote_rotation \in ServerRotations
  /\ rotation_cache = <<>>
  /\ pc = "idle"
  /\ arg = <<>>
  /\ rotation = <<>>
  /\ current = <<>>
  /\ idx = 0
  /\ m = NoMap
  /\ first = NoMap
  /\ to_remove = {}
  /\ ops = <<>>
  /\ start = remote_rotation
  /\ CacheAtRest
  /\ LogAtRest
  /\ AdmAtRest

\* ---------------------------------------------------------------- actions
\* A caller reads the rotation between two set_maprotation calls.
get_map_rotation ==
  /\ pc = "idle"
  /\ rotation_cache = <<>>
  /\ rotation_cache' = <<remote_rotation>>
  /\ UNCHANGED <<remote_rotation, pc, arg, rotation, current, idx, m, first,
                 to_remove, ops, start>>
  /\ UNCHANGED <<cacheVars, logVars, admVars>>

\* The cached rotation outlives its ttl (60 * 5 seconds).
expire_map_rotation ==
  /\ pc = "idle"
  /\ rotation_cache # <<>>
  /\ rotation_cache' = <<>>
  /\ UNCHANGED <<remote_rotation, pc, arg, rotation, current, idx, m, first,
                 to_remove, ops, start>>
  /\ UNCHANGED <<cacheVars, logVars, admVars>>

\* (Calls are followed from the rotations a server holds in normal operation:
\* not empty, no map twice, at most MaxLen long. A call with a repeated map in
\* its argument can leave the remote outside of them.)
\* set_maprotation(r) up to its first remote mutation: the emptiness check,
\* the cached read of the current rotation, the equality check and the choice
\* of branch (with `first = rotation.pop(0)` and to_remove for the general one).
set_maprotation(r) ==
  /\ pc = "idle"
  /\ remote_rotation \in ServerRotations
  /\ arg' = r
  /\ ops' = <<>>
  /\ start' = remote_rotation
  /\ idx' = 0
  /\ m' = NoMap
  /\ UNCHANGED remote_rotation
  /\ IF EmptyRotation(r)
     THEN /\ pc' = "raised"
          /\ rotation' = r
          /\ current' = <<>>
          /\ first' = NoMap
          /\ to_remove' = {}
          /\ UNCHANGED rotation_cache
     ELSE /\ current' = get_map_rotation_value
          /\ rotation_cache' = get_map_rotation_cache
          /\ IF SameRotation(r, current')
             THEN /\ pc' = "returned"
                  /\ rotation' = r
                  /\ first' = NoMap
                  /\ to_remove' = {}
             ELSE IF Len(current') = 1
             THEN /\ pc' = "single_loop"
                  /\ rotation' = r
                  /\ first' = NoMap
                  /\ to_remove' = {}
             ELSE /\ pc' = "general"
                  /\ first' = IF r = <<>> THEN NoMap ELSE Head(r)
                  /\ rotation' = IF r = <<>> THEN <<>> ELSE Tail(r)
                  /\ to_remove' = Range(current') \ {first'}
  /\ UNCHANGED <<cacheVars, logVars, admVars>>

\* Single-map branch, loop body when m is not in current: add it.
single_add ==
  /\ pc = "single_loop"
  /\ idx < Len(rotation)
  /\ rotation[idx + 1] \notin Range(current)
  /\ m' = rotation[idx + 1]
  /\ do_add_map_to_rotation(m')
  /\ idx' = idx + 1
  /\ UNCHANGED <<pc, arg, rotation, current, first, to_remove, start>>
  /\ UNCHANGED <<cacheVars, logVars, admVars>>

\* Loop body when m is the current map at index 0: nothing to do.
single_keep ==
  /\ pc = "single_loop"
  /\ idx < Len(rotation)
  /\ rotation[idx + 1] \in Range(current)
  /\ ~ReAddNeeded(rotation[idx + 1], current, idx)
  /\ m' = rotation[idx + 1]
  /\ idx' = idx + 1
  /\ UNCHANGED <<remote_rotation, rotation_cache, pc, arg, rotation, current,
                 first, to_remove, ops, start>>
  /\ UNCHANGED <<cacheVars, logVars, admVars>>

\* Loop body when m is the current map at a later index: remove it ...
single_remove ==
  /\ pc = "single_loop"
  /\ idx < Len(rotation)
  /\ ReAddNeeded(rotation[idx + 1], current, idx)
  /\ m' = rotation[idx + 1]
  /\ do_remove_map_from_rotation(m')
  /\ pc' = "single_readd"
  /\ UNCHANGED <<arg, rotation, current, idx, first, to_remove, start>>
  /\ UNCHANGED <<cacheVars, logVars, admVars>>

\* ... and add it again at the end.
single_readd ==
  /\ pc = "single_readd"
  /\ do_add_map_to_rotation(m)
  /\ pc' = "single_loop"
  /\ idx' = idx + 1
  /\ UNCHANGED <<arg, rotation, current, m, first, to_remove, start>>
  /\ UNCHANGED <<cacheVars, logVars, admVars>>

\* After the loop: `if current[0] not in rotation:
\* self.do_remove_map_from_rotation(m)`, then `return rotation`; leaving the
\* `with invalidates` block purges the cached rotation.
single_final ==
  /\ pc = "single_loop"
  /\ idx = Len(rotation)
  /\ IF current[1] \notin Range(rotation)
     THEN do_remove_map_from_rotation(m)
     ELSE /\ rotation_cache' = <<>>
          /\ UNCHANGED <<remote_rotation, ops>>
  /\ pc' = "returned"
  /\ UNCHANGED <<arg, rotation, current, idx, m, first, to_remove, start>>
  /\ UNCHANGED <<cacheVars, logVars, admVars>>

\* General branch: `if to_remove == set(current): do_add_map_to_rotation(first)`.
general_add_first ==
  /\ pc = "general"
  /\ IF AddFirstNeeded(to_remove, current)
     THEN do_add_map_to_rotation(first)
     ELSE UNCHANGED <<remote_rotation, rotation_cache, ops>>
  /\ pc' = "general_remove"
  /\ UNCHANGED <<arg, rotation, current, idx, m, first, to_remove, start>>
  /\ UNCHANGED <<cacheVars, logVars, admVars>>

\* do_remove_maps_from_rotation(to_remove): one remote removal per map, in the
\* iteration order of the set, which the language leaves open.
general_remove ==
  /\ pc = "general_remove"
  /\ to_remove # {}
  /\ \E map_name \in to_remove :
       /\ do_remove_map_from_rotation(map_name)
       /\ to_remove' = to_remove \ {map_name}
  /\ UNCHANGED <<pc, arg, rotation, current, idx, m, first, start>>
  /\ UNCHANGED <<cacheVars, logVars, admVars>>

\* The loop of do_remove_maps_from_rotation is over: its `with invalidates`
\* block is left.
general_remove_done ==
  /\ pc = "general_remove"
  /\ to_remove = {}
  /\ pc' = "general_add"
  /\ rotation_cache' = <<>>
  /\ UNCHANGED <<remote_rotation, arg, rotation, current, idx, m, first,
                 to_remove, ops, start>>
  /\ UNCHANGED <<cacheVars, logVars, admVars>>

\* do_add_maps_to_rotation(rotation): one remote add per remaining map.
general_add ==
  /\ pc = "general_add"
  /\ idx < Len(rotation)
  /\ do_add_map_to_rotation(rotation[idx + 1])
  /\ idx' = idx + 1
  /\ UNCHANGED <<pc, arg, rotation, current, m, first, to_remove, start>>
  /\ UNCHANGED <<cacheVars, logVars, admVars>>

\* End of the `with invalidates` block and `return [first] + rotation`.
general_return ==
  /\ pc = "general_add"
  /\ idx = Len(rotation)
  /\ pc' = "returned"
  /\ rotation_cache' = <<>>
  /\ UNCHANGED <<remote_rotation, arg, rotation, current, idx, m, first,
                 to_remove, ops, start>>
  /\ UNCHANGED <<cacheVars, logVars, admVars>>

\* The caller has the result (or the CommandFailedError); the locals of the
\* call are gone and the caller may call again.
call_done ==
  /\ pc \in {"returned", "raised"}
  /\ pc' = "idle"
  /\ arg' = <<>>
  /\ rotation' = <<>>
  /\ current' = <<>>
  /\ idx' = 0
  /\ m' = NoMap
  /\ first' = NoMap
  /\ to_remove' = {}
  /\ ops' = <<>>
  /\ start' = remote_rotation
  /\ UNCHANGED <<remote_rotation, rotation_cache>>
  /\ UNCHANGED <<cacheVars, logVars, admVars>>

Next ==
  \/ get_map_rotation
  \/ expire_map_rotation
  \/ \E r \in Rotations : set_maprotation(r)
  \/ single_add
  \/ single_keep
  \/ single_remove
  \/ single_readd
  \/ single_final
  \/ general_add_first
  \/ general_remove
  \/ general_remove_done
  \/ general_add
  \/ general_return
  \/ call_done

vars == <<rotVars, cacheVars, logVars, admVars>>

Spec == Init /\ [][Next]_vars

\* ====================================================================
\* The cache protocol, one caller (specification SpecCache)
\* ====================================================================

\* A cached getter: a stored entry is returned without a remote call,
\* otherwise the remote is read and the result stored.
cached_read(k) ==
  /\ cache' = [cache EXCEPT ![k] = CachedValue(cache, remote_version, k)]
  /\ last' = [NoCall EXCEPT
                !.kind = "read", !.name = k,
                !.called = (cache[k] = NoVal),
                !.value = CachedValue(cache, remote_version, k),
                !.after = IF last.kind = "mut" /\ k \in Touches(last.name)
                          THEN last.name ELSE "none",
                !.after_reply = IF last.kind = "mut" /\ k \in Touches(last.name)
                                THEN last.reply ELSE "none",
                !.before = IF last.kind = "mut" /\ k \in Touches(last.name)
                           THEN last.pre[k] ELSE NoVal]
  /\ UNCHANGED <<remote_version, conc_reader, conc_mut>>
  /\ UNCHANGED <<rotVars, logVars, admVars>>

\* A mutating command: `with invalidates(...)` around one remote call whose
\* outcome is res.
mutate(op, res) ==
  /\ res = "SUCCESS" => Mutations + Cardinality(Touches(op)) <= MaxMut
  /\ remote_version' = RemoteAfter(remote_version, op, res)
  /\ cache' = CacheAfter(cache, op, BodyRaises(op, res))
  /\ last' = [NoCall EXCEPT
                !.kind = "mut", !.name = op, !.reply = res,
                !.raised = BodyRaises(op, res),
                !.called = TRUE,
                !.kept = (cache' = cache),
                !.pre = [k \in Touches(op) |-> cache[k]]]
  /\ UNCHANGED <<conc_reader, conc_mut>>
  /\ UNCHANGED <<rotVars, logVars, admVars>>

\* The ttl of an entry runs out.
expire(k) ==
  /\ cache[k] # NoVal
  /\ cache' = [cache EXCEPT ![k] = NoVal]
  /\ last' = [NoCall EXCEPT !.kind = "expire", !.name = k]
  /\ UNCHANGED <<remote_version, conc_reader, conc_mut>>
  /\ UNCHANGED <<rotVars, logVars, admVars>>

InitCache == RotAtRest /\ CacheAtRest /\ LogAtRest /\ AdmAtRest

NextCache ==
  \/ \E k \in CachedGetters : cached_read(k)
  \/ \E op \in Mutators : \E res \in Replies(op) : mutate(op, res)
  \/ \E k \in CachedGetters : expire(k)

SpecCache == InitCache /\ [][NextCache]_vars

\* ====================================================================
\* A reader concurrent with a mutating caller (specification SpecConc)
\* ====================================================================

\* The second caller enters a cached getter whose entry is missing and sends
\* the remote request: the reply carries the data as it is now.
reader_fetch(k) ==
  /\ conc_reader.pc = "idle"
  /\ cache[k] = NoVal
  /\ conc_reader' = [pc |-> "fetching", key |-> k, val |-> remote_version[k]]
  /\ UNCHANGED <<remote_version, cache, last, conc_mut>>
  /\ UNCHANGED <<rotVars, logVars, admVars>>

\* The reply arrives and the getter stores it under its key.
reader_store ==
  /\ conc_reader.pc = "fetching"
  /\ cache' = [cache EXCEPT ![conc_reader.key] = conc_reader.val]
  /\ conc_reader' = ReaderIdle
  /\ UNCHANGED <<remote_version, last, conc_mut>>
  /\ UNCHANGED <<rotVars, logVars, admVars>>

\* The mutating caller is inside `with invalidates(...)` and its remote
\* mutation has succeeded.
mut_remote(op) ==
  /\ conc_mut.pc = "idle"
  /\ Mutations + Cardinality(Touches(op)) <= MaxMut
  /\ remote_version' = RemoteAfter(remote_version, op, "SUCCESS")
  /\ conc_mut' = [pc |-> "in_with", op |-> op, key |-> "none",
                  floor |-> NoVal, got |-> NoVal]
  /\ UNCHANGED <<cache, last, conc_reader>>
  /\ UNCHANGED <<rotVars, logVars, admVars>>

\* It leaves the `with` block: the invalidation.
mut_invalidate ==
  /\ conc_mut.pc = "in_with"
  /\ cache' = CacheAfter(cache, conc_mut.op, FALSE)
  /\ conc_mut' = [conc_mut EXCEPT !.pc = "mutated"]
  /\ UNCHANGED <<remote_version, last, conc_reader>>
  /\ UNCHANGED <<rotVars, logVars, admVars>>

\* The same caller then reads one of the getters its command changed.
mut_read(k) ==
  /\ conc_mut.pc = "mutated"
  /\ k \in Touches(conc_mut.op)
  /\ cache' = [cache EXCEPT ![k] = CachedValue(cache, remote_version, k)]
  /\ conc_mut' = [conc_mut EXCEPT !.pc = "read", !.key = k,
                    !.floor = remote_version[k],
                    !.got = CachedValue(cache, remote_version, k)]
  /\ UNCHANGED <<remote_version, last, conc_reader>>
  /\ UNCHANGED <<rotVars, logVars, admVars>>

\* The mutating caller is ready for its next command.
mut_next ==
  /\ conc_mut.pc = "read"
  /\ conc_mut' = MutIdle
  /\ UNCHANGED <<remote_version, cache, last, conc_reader>>
  /\ UNCHANGED <<rotVars, logVars, admVars>>

InitConc == RotAtRest /\ CacheAtRest /\ LogAtRest /\ AdmAtRest

NextConc ==
  \/ \E k \in CachedGetters : reader_fetch(k)
  \/ reader_store
  \/ \E op \in Mutators : mut_remote(op)
  \/ mut_invalidate
  \/ \E k \in CachedGetters : mut_read(k)
  \/ mut_next

SpecConc == InitConc /\ [][NextConc]_vars

\* ====================================================================
\* Properties of set_maprotation (specification Spec)
\* ====================================================================

\* Rotations reached from a rotation of R by one append-add or one remove of
\* a map that is present, never empty and at most cap long.
Succ(R, cap) ==
  {r2 \in ({Append(r, x) : r \in R, x \in Maps}
           \cup UNION {{RemoteRemove(r, x) : x \in Range(r)} : r \in R}) :
     r2 # <<>> /\ Len(r2) <= cap}

\* Breadth-first search: seen are the rotations reached in at most n
\* operations, frontier those reached in exactly n. The result is the length
\* of the shortest sequence of operations that reaches des (limit + 1 when
\* none of at most limit operations does).
RECURSIVE MinOpsFrom(_, _, _, _, _, _)
MinOpsFrom(seen, frontier, des, n, limit, cap) ==
  IF des \in frontier THEN n
  ELSE IF n >= limit \/ frontier = {} THEN limit + 1
  ELSE LET next == Succ(frontier, cap) \ seen
       IN MinOpsFrom(seen \cup next, next, des, n + 1, limit, cap)

\* Length of the shortest sequence of remove / append-add operations that
\* turns cur into des without an empty rotation on the way. No shortest
\* sequence makes the rotation longer than the longer of the two lists plus
\* one.
MinOps(cur, des) ==
  MinOpsFrom({cur}, {cur}, des, 0, Len(cur) + Len(des),
             (IF Len(cur) > Len(des) THEN Len(cur) ELSE Len(des)) + 1)

\* s is a subsequence of t (same relative order, not necessarily adjacent).
RECURSIVE IsSubseq(_, _)
IsSubseq(s, t) ==
  IF s = <<>> THEN TRUE
  ELSE IF t = <<>> THEN FALSE
  ELSE IF Head(s) = Head(t) THEN IsSubseq(Tail(s), Tail(t))
  ELSE IsSubseq(s, Tail(t))

\* Number of leading maps of des that can stay where they are in cur.
KeepLen(cur, des) ==
  LET ks == {k \in 0..Len(des) : IsSubseq(SubSeq(des, 1, k), cur)}
  IN CHOOSE k \in ks : \A j \in ks : j <= k

\* C1: for a duplicate-free, non-empty desired list, the add/remove operations
\* issued by set_maprotation leave the remote rotation equal to the desired
\* list, same maps in the same order.
C1_Convergence ==
  (pc = "returned" /\ NoDup(arg)) => remote_rotation = arg

\* C2: with a non-empty current rotation and a non-empty desired list, the
\* remote rotation is non-empty after every add or remove issued by
\* set_maprotation.
C2_NeverEmpty ==
  (pc # "idle" /\ start # <<>> /\ arg # <<>>) => remote_rotation # <<>>

\* C6: set_maprotation with an empty desired list raises CommandFailedError
\* before any remote call: no add, no remove, and the cache is left as it
\* was (a rotation read would have stored its result in an empty cache).
C6_EmptyRejected ==
  [][(pc = "idle" /\ pc' # "idle" /\ arg' = <<>>) =>
       /\ pc' = "raised"
       /\ ops' = <<>>
       /\ rotation_cache' = rotation_cache
       /\ remote_rotation' = remote_rotation]_vars

C6_Witness ==
  pc = "raised" /\ arg = <<>> /\ ops = <<>> /\ rotation_cache = <<>>

\* C7: when the desired list equals the current rotation, set_maprotation
\* issues no add and no remove and the remote rotation is unchanged.
C7_SameNoOps ==
  (pc # "idle" /\ arg # <<>> /\ arg = start) =>
     /\ pc = "returned"
     /\ ops = <<>>
     /\ remote_rotation = start

C7_Witness ==
  pc = "returned" /\ arg = start /\ Len(arg) >= 2 /\ ops = <<>>

C9_DuplicatesRejected ==
  (pc # "idle" /\ ~NoDup(arg)) => (pc = "raised" /\ ops = <<>>)

\* C10: with a single current map A and a duplicate-free desired list that
\* contains A, set_maprotation removes A only after another map has been
\* added, never leaves the rotation empty, and ends with remote = desired.
C10_SingleEntryKept ==
  (/\ pc # "idle"
   /\ Len(start) = 1
   /\ NoDup(arg)
   /\ start[1] \in Range(arg)) =>
     /\ remote_rotation # <<>>
     /\ \A i \in 1..Len(ops) :
          (ops[i].op = "remove" /\ ops[i].map = start[1]) =>
             \E j \in 1..(i - 1) : ops[j].op = "add" /\ ops[j].map # start[1]
     /\ (pc = "returned" => remote_rotation = arg)

C10_Witness ==
  /\ pc = "returned"
  /\ start = <<"A">>
  /\ arg = <<"B", "A">>
  /\ ops = << [op |-> "add", map |-> "B"], [op |-> "remove", map |-> "A"],
              [op |-> "add", map |-> "A"] >>
  /\ remote_rotation = <<"B", "A">>

\* ====================================================================
\* Properties of the cache protocol (specifications SpecCache, SpecConc)
\* ====================================================================

\* C3: after a mutating command has succeeded, the next read of a getter
\* whose data the command changed goes to the remote and does not return the
\* value that was cached before the command.
C3_FreshAfterSuccess ==
  (/\ last.kind = "read"
   /\ last.after \in Mutators
   /\ last.after_reply = "SUCCESS"
   /\ last.name \in Touches(last.after)) =>
     /\ last.called
     /\ last.value = remote_version[last.name]
     /\ last.value # last.before

C3_Witness ==
  /\ last.kind = "read"
  /\ last.after = "do_add_vip"
  /\ last.after_reply = "SUCCESS"
  /\ last.name = "get_vip_ids"
  /\ last.before = 0
  /\ last.called
  /\ last.value = 1

\* C4: when the remote mutation of a command fails, the command raises, the
\* cache is exactly as before the call, and the next read of an associated
\* getter whose entry is still within its ttl returns that entry without a
\* remote call.
C4_UntouchedOnFailure ==
  /\ (last.kind = "mut" /\ last.reply # "SUCCESS") =>
        (last.raised /\ last.kept)
  /\ (/\ last.kind = "read"
      /\ last.after \in Mutators
      /\ last.after_reply # "SUCCESS"
      /\ last.name \in Touches(last.after)
      /\ last.before # NoVal) =>
        (~last.called /\ last.value = last.before)

C4_Witness ==
  /\ last.kind = "read"
  /\ last.after = "set_map"
  /\ last.after_reply = "FAIL"
  /\ last.name = "get_map"
  /\ last.before = 1
  /\ ~last.called
  /\ last.value = 1

\* C5: with another caller reading the same getter concurrently, a read by
\* the mutating caller after its command has succeeded never returns a value
\* that was fetched from the remote before the command.
C5_NoStaleAfterMutation ==
  conc_mut.pc = "read" => conc_mut.got >= conc_mut.floor

\* ====================================================================
\* Log parsing: parse_logs, get_structured_logs, get_scoreboard
\* ====================================================================
\* A text is a sequence of symbols: a symbol is a maximal run of letters,
\* digits and underscores (a word) or one other character.  The operations of
\* the code on str (split, startswith, in, the regular expressions) are
\* computed on these sequences; the tables below say which words of the
\* alphabet a keyword is a prefix, suffix or part of, character by character.

MaxLines == 2         \* most lines in one raw log text

NL == "\n"
Sides == {"Allies", "Axis"}
Digits == {"0", "1", "2", "3", "100", "111", "160", "222", "333"}
SingleChars ==
  {" ", "!", "(", ")", "-", ".", "/", ":", ">", "[", "]", "{", "}",
   "0", "1", "2", "3", "a", "b"}

\* int(s) for the words of Digits.
IntOf(w) ==
  CASE w = "0" -> 0 [] w = "1" -> 1 [] w = "2" -> 2 [] w = "3" -> 3
    [] w = "100" -> 100 [] w = "111" -> 111 [] w = "160" -> 160
    [] w = "222" -> 222 [] w = "333" -> 333

\* Words w of the alphabet with w.startswith(kw).
Starting(kw) ==
  CASE kw = "CONNECTED" -> {"CONNECTED", "CONNECTEDX"}
    [] kw = "KILL" -> {"KILL", "KILLER", "KILLING"}
    [] OTHER -> {kw}
\* Words w with w.endswith(kw); words w with kw in w.
Ending(kw) == {kw}
Having(kw) == {kw}
\* Words w with w.lower() == kw; words w with kw in w.lower().
LowerIs(kw) ==
  CASE kw = "against" -> {"against", "Against"}
    [] OTHER -> {kw}
LowerHaving(kw) ==
  CASE kw = "completed" -> {"completed", "COMPLETED"}
    [] kw = "kick" -> {"kick", "KICK", "KICKED", "Kick", "kicked",
                       "PVR_Kick_Abuse"}
    [] OTHER -> {kw}
\* Words w with w.upper() == kw; words w with w.upper().startswith(kw).
UpperIs(kw) == {kw}
UpperStarting(kw) ==
  CASE kw = "PLAYER" -> {"PLAYER", "Player"}
    [] kw = "KICK" -> {"KICK", "KICKED", "Kick", "kicked"}
    [] kw = "START" -> {"START", "STARTED", "Started"}
    [] OTHER -> {kw}

\* The element of a one-element set.  Value({e(v) : v \in {d}}) is e with v
\* standing for the value of d, which is computed once.
Value(S) == CHOOSE v \in S : TRUE

\* A pattern is a sequence of sets of symbols; Lit(p) matches p itself.
Lit(p) == [j \in 1..Len(p) |-> {p[j]}]
OccursAt(s, i, pat) ==
  /\ i >= 1
  /\ i + Len(pat) - 1 <= Len(s)
  /\ \A j \in 1..Len(pat) : s[i + j - 1] \in pat[j]
Occurrences(s, pat) == {i \in 1..Len(s) : OccursAt(s, i, pat)}
MaxOf(S) == CHOOSE x \in S : \A y \in S : y <= x
MinOf(S) == CHOOSE x \in S : \A y \in S : x <= y
Before(s, i) == SubSeq(s, 1, i - 1)
From(s, i) == SubSeq(s, i, Len(s))

\* s.split(sep, 1): one or two parts.
split1(s, sep) ==
  Value({ IF occ = {} THEN <<s>>
          ELSE <<Before(s, MinOf(occ)), From(s, MinOf(occ) + Len(sep))>> :
          occ \in {Occurrences(s, Lit(sep))} })

\* s.rsplit(sep, 1): one or two parts, cut at the last sep.
rsplit1_leftmost(s, sep) ==
  Value({ IF occ = {} THEN <<s>>
          ELSE <<Before(s, MinOf(occ)), From(s, MinOf(occ) + Len(sep))>> :
          occ \in {Occurrences(s, Lit(sep))} })

rsplit1(s, sep) ==
  Value({ IF occ = {} THEN <<s>>
          ELSE <<Before(s, MaxOf(occ)), From(s, MaxOf(occ) + Len(sep))>> :
          occ \in {Occurrences(s, Lit(sep))} })

\* raw.split("\n")
RECURSIVE SplitLines(_)
SplitLines(text) ==
  Value({ IF Len(sp) = 1 THEN sp
          ELSE <<sp[1]>> \o SplitLines(sp[2]) :
          sp \in {split1(text, <<NL>>)} })

\* s.startswith(p): the last symbol of p may be the beginning of a word.
StartsWith(s, p) ==
  p # <<>> /\ OccursAt(s, 1, [j \in 1..Len(p) |->
                 IF j = Len(p) THEN Starting(p[j]) ELSE {p[j]}])
\* s.upper().startswith(p)
UpperStartsWith(s, p) ==
  OccursAt(s, 1, [j \in 1..Len(p) |->
                 IF j = Len(p) THEN UpperStarting(p[j]) ELSE UpperIs(p[j])])
\* p in s
Contains(s, p) ==
  Occurrences(s, [j \in 1..Len(p) |->
      IF Len(p) = 1 THEN Having(p[j])
      ELSE IF j = 1 THEN Ending(p[j])
      ELSE IF j = Len(p) THEN Starting(p[j])
      ELSE {p[j]}]) # {}
\* p in s.lower()
LowerContains(s, p) ==
  Occurrences(s, [j \in 1..Len(p) |->
      IF Len(p) = 1 THEN LowerHaving(p[j]) ELSE LowerIs(p[j])]) # {}

\* ------------------------------------------------------------- constants
LOG_ACTIONS ==
  { <<"DISCONNECTED">>,
    <<"CHAT", "[", "Allies", "]">>,
    <<"CHAT", "[", "Axis", "]">>,
    <<"CHAT", "[", "Allies", "]", "[", "Unit", "]">>,
    <<"KILL">>,
    <<"CONNECTED">>,
    <<"CHAT", "[", "Allies", "]", "[", "Team", "]">>,
    <<"CHAT", "[", "Axis", "]", "[", "Team", "]">>,
    <<"CHAT", "[", "Axis", "]", "[", "Unit", "]">>,
    <<"CHAT">>,
    <<"VOTE", " ", "COMPLETED">>,
    <<"VOTE", " ", "STARTED">>,
    <<"VOTE">>,
    <<"TEAMSWITCH">>,
    <<"TK">>,
    <<"TK", " ", "KICKED">>,
    <<"TK", " ", "BANNED", " ", "FOR", " ", "2", " ", "HOURS">>,
    <<"MATCH">>,
    <<"MATCH", " ", "START">>,
    <<"MATCH", " ", "ENDED">> }

\* (Allies|Axis)/(\d+) between parentheses, as in player_info_pattern.
player_info_pattern == <<{"("}, Sides, {"/"}, Digits, {")"}>>

\* ----------------------------------------------------------- _extract_time
\* log_time_regexp ".*\((\d+)\).*": the greedy .* leaves the last
\* parenthesised integer.  No match raises ValueError.
extract_time(time_str) ==
  Value({ IF occ = {} THEN [ok |-> FALSE, value |-> 0]
          ELSE [ok |-> TRUE, value |-> IntOf(time_str[MaxOf(occ) + 1])] :
          occ \in {Occurrences(time_str, <<{"("}, Digits, {")"}>>)} })

\* ---------------------------------------------------- one line in the try
\* The outcome of the try block for one line: skipped (an exception caught
\* by the bare except, or the continue of the unknown type), or the locals
\* the rest of the loop body uses.
Skipped == [kind |-> "skipped"]
Locals(time, rest) ==
  [kind |-> "parsed", time |-> time, rest |-> rest, action |-> None,
   player |-> None, steam_id_64_1 |-> None, player2 |-> None,
   steam_id_64_2 |-> None, weapon |-> None, content |-> rest,
   sub_content |-> None]

\* lines 844-845 and 846-847: action, content = rest.split(sep, 1)
branch_split(f, sep) ==
  Value({ IF Len(sp) # 2 THEN Skipped
          ELSE [f EXCEPT !.action = sp[1], !.content = sp[2]] :
          sp \in {split1(f.rest, sep)} })

\* lines 848-858: chat_regexp; the greedy player group ends at the last
\* "(side/id)]: ".
chat_head == <<{"CHAT"}, {"["}, {"Team", "Unit"}, {"]"}, {"["}>>
chat_tail == player_info_pattern \o <<{"]"}, {":"}, {" "}>>
chat_fields(f, i) ==
  LET rest == f.rest
      player == SubSeq(rest, 6, i - 1)
      sub == From(rest, i + 8)
  IN  [f EXCEPT
         !.player = player,
         !.steam_id_64_1 = <<rest[i + 3]>>,
         !.action = <<"CHAT", "[", rest[i + 1], "]", "[", rest[3], "]">>,
         !.sub_content = sub,
         !.content = player \o <<":", " ">> \o sub \o <<" ", "(">>
                       \o <<rest[i + 3]>> \o <<")">>]
branch_chat(f) ==
  Value({ IF ~OccursAt(f.rest, 1, chat_head) \/ occ = {} THEN Skipped
          ELSE chat_fields(f, MaxOf(occ)) :
          occ \in {{i \in Occurrences(f.rest, chat_tail) : i >= 6}} })

\* lines 859-883
vote_player == <<{"VOTE"}, {" "}, {"Player"}, {" "}, {"["}>>
vote_against == <<{" "}, {"against"}, {" "}, {"["}>>
vote_id == <<{"]"}, {"."}, {" "}, {"VoteID"}, {":"}, {" "}, {"["}, Digits, {"]"}>>
vote_kick == <<{"VOTE"}, {" "}, {"Vote"}, {" "}, {"Kick"}, {" "}, {"{"}>>
\* The greatest member of I, then of J, then of K, with i < j + dj <= k + dk
\* in that order of choice; <<>> when there is none.
greedy3(I, J, K, dj, dk) ==
  Value({ Value({
    IF II = {} THEN <<>>
    ELSE Value({ <<i, j, MaxOf({k \in K : k >= j + dk})>> :
                 i \in {MaxOf(II)},
                 j \in {MaxOf({x \in JK : x >= MaxOf(II) + dj})} }) :
    II \in {{i \in I : \E j \in JK : j >= i + dj}} }) :
    JK \in {{j \in J : \E k \in K : k >= j + dk}} })
\* r"VOTE Player \[(.*)\].* against \[(.*)\]\. VoteID: \[\d+\]": each .* takes
\* the most it can, the first one first.  The positions of the "]" closing
\* the first group, of " against [" and of "]. VoteID", or <<>> for no match.
vote_started_match(rest) ==
  greedy3({i \in 6..Len(rest) : rest[i] = "]"},
          Occurrences(rest, vote_against),
          Occurrences(rest, vote_id), 1, 4)
vote_tail(rest) == From(rest, MaxOf(Occurrences(rest, <<{"VOTE"}>>)) + 1)
branch_vote(f) ==
  Value({
    IF is_player /\ LowerContains(f.rest, <<" ", "against", " ">>)
    THEN Value({ IF ~OccursAt(f.rest, 1, vote_player) \/ t = <<>> THEN Skipped
                 ELSE [g EXCEPT !.action = <<"VOTE", " ", "STARTED">>,
                                !.player = SubSeq(f.rest, 6, t[1] - 1),
                                !.player2 = SubSeq(f.rest, t[2] + 4, t[3] - 1)] :
                 t \in {vote_started_match(f.rest)} })
    ELSE IF is_player /\ LowerContains(f.rest, <<"voted">>)
    THEN Value({ IF ~OccursAt(f.rest, 1, vote_player) \/ occ = {} THEN Skipped
                 ELSE [g EXCEPT !.player = SubSeq(f.rest, 6, MaxOf(occ) - 1)] :
                 occ \in {{i \in Occurrences(f.rest,
                                  <<{"]"}, {" "}, Starting("voted")>>) : i >= 6}} })
    ELSE IF LowerContains(f.rest, <<"completed">>)
    THEN [g EXCEPT !.action = <<"VOTE", " ", "COMPLETED">>]
    ELSE IF LowerContains(f.rest, <<"kick">>)
    THEN Value({ IF ~OccursAt(f.rest, 1, vote_kick) \/ occ = {} THEN Skipped
                 ELSE [g EXCEPT !.action = <<"VOTE", " ", "COMPLETED">>,
                                !.player = SubSeq(f.rest, 8, MaxOf(occ) - 1)] :
                 occ \in {{i \in Occurrences(f.rest, <<{"}"}>>) : i >= 8}} })
    ELSE [g EXCEPT !.player = <<>>] :
    is_player \in {StartsWith(f.rest, <<"VOTE", " ", "Player">>)},
    g \in {[f EXCEPT !.action = <<"VOTE">>,
                     !.sub_content = vote_tail(f.rest),
                     !.content = vote_tail(f.rest)]} })

\* lines 884-892: the action is set before the pattern is tried, and a line
\* the pattern does not match is only logged.
camera_fields(g, occ) ==
  IF OccursAt(g.content, 1, <<{"["}>>) /\ occ # {}
  THEN [g EXCEPT !.player = SubSeq(g.content, 2, MaxOf(occ) - 1),
                 !.steam_id_64_1 = <<g.content[MaxOf(occ) + 2]>>,
                 !.sub_content = rsplit1(g.content, <<"]">>)[2]]
  ELSE g
branch_camera(f) ==
  Value({ IF Len(sp) # 2 THEN Skipped
          ELSE Value({ camera_fields(g, occ) :
                 g \in {[f EXCEPT !.action = <<"CAMERA">>, !.content = sp[2]]},
                 occ \in {{i \in Occurrences(sp[2],
                             <<{" "}, {"("}, Digits, {")"}, {"]"}>>) : i >= 2}} }) :
          sp \in {split1(f.rest, <<" ">>)} })

\* lines 893-899: r"TEAMSWITCH\s(.*)\s\(((.*)\s>\s(.*))\)": the positions
\* of " (", of " > " and of the closing ")", or <<>> for no match.
teamswitch_match(rest) ==
  greedy3({i \in Occurrences(rest, <<{" "}, {"("}>>) : i >= 3},
          Occurrences(rest, <<{" "}, {">"}, {" "}>>),
          {k \in 1..Len(rest) : rest[k] = ")"}, 2, 3)
branch_teamswitch(f) ==
  Value({ IF OccursAt(f.rest, 1, <<{"TEAMSWITCH"}, {" "}>>) /\ t # <<>>
          THEN [f EXCEPT !.action = <<"TEAMSWITCH">>,
                         !.player = SubSeq(f.rest, 3, t[1] - 1),
                         !.sub_content = SubSeq(f.rest, t[1] + 2, t[3] - 1)]
          ELSE [f EXCEPT !.action = <<"TEAMSWITCH">>] :
          t \in {teamswitch_match(f.rest)} })

\* lines 900-909: the action is set only when the pattern matches; a line it
\* does not match is logged and keeps action = None.
kick_types == {<<"KICKED">>, <<"BANNED", " ", "FOR", " ", "2", " ", "HOURS">>}
kick_tail(type_) ==
  <<{"]"}, {" "}, {"has"}, {" "}, {"been"}, {" "}, {"kicked"}, SingleChars,
    {" "}, {"["}>> \o Lit(type_)
    \o Lit(<<" ", "FOR", " ", "TEAM", " ", "KILLING", "!", "]">>)
kick_matches(rest) ==
  {t \in (5..Len(rest)) \X kick_types : OccursAt(rest, t[1], kick_tail(t[2]))}
branch_kick(f) ==
  Value({ IF OccursAt(f.rest, 1, Lit(<<"KICK", ":", " ", "[">>)) /\ T # {}
          THEN Value({ [f EXCEPT
                          !.player = SubSeq(f.rest, 5, t[1] - 1),
                          !.sub_content = SubSeq(f.rest, t[1] + 2,
                                              t[1] + Len(kick_tail(t[2])) - 1),
                          !.action = <<"TK", " ">> \o t[2]] :
                       t \in {CHOOSE u \in T : \A v \in T : v[1] <= u[1]} })
          ELSE f :
          T \in {kick_matches(f.rest)} })

\* lines 910-915: _, sub_content = rest.split(sep) needs exactly two parts.
branch_match(f, action, sep) ==
  Value({ IF Cardinality(occ) # 1 THEN Skipped
          ELSE [f EXCEPT !.action = action,
                         !.sub_content = From(f.rest, MinOf(occ) + Len(sep))] :
          occ \in {Occurrences(f.rest, Lit(sep))} })

\* lines 844-918: the chain of prefix tests
classify(f) ==
  LET rest == f.rest
  IN  IF StartsWith(rest, <<"DISCONNECTED">>) \/ StartsWith(rest, <<"CONNECTED">>)
      THEN branch_split(f, <<" ">>)
      ELSE IF StartsWith(rest, <<"KILL">>) \/ StartsWith(rest, <<"TEAM", " ", "KILL">>)
      THEN branch_split(f, <<":", " ">>)
      ELSE IF StartsWith(rest, <<"CHAT">>) THEN branch_chat(f)
      ELSE IF StartsWith(rest, <<"VOTE">>) THEN branch_vote(f)
      ELSE IF UpperStartsWith(rest, <<"PLAYER">>) THEN branch_camera(f)
      ELSE IF UpperStartsWith(rest, <<"TEAMSWITCH">>) THEN branch_teamswitch(f)
      ELSE IF /\ UpperStartsWith(rest, <<"KICK">>)
              /\ Contains(rest, <<"FOR", " ", "TEAM", " ", "KILLING">>)
      THEN branch_kick(f)
      ELSE IF UpperStartsWith(rest, <<"MATCH", " ", "START">>)
      THEN branch_match(f, <<"MATCH", " ", "START">>, <<"MATCH", " ", "START", " ">>)
      ELSE IF UpperStartsWith(rest, <<"MATCH", " ", "ENDED">>)
      THEN branch_match(f, <<"MATCH", " ", "ENDED">>, <<"MATCH", " ", "ENDED", " ">>)
      ELSE Skipped

\* lines 920-921
connected_player(f) ==
  IF f.action \in {<<"CONNECTED">>, <<"DISCONNECTED">>}
  THEN [f EXCEPT !.player = f.content] ELSE f

\* lines 922-930: re.split at the last "(side/id) -> ", rsplit at the last
\* " with ", then the last "(side/id)" of what is left.
kill_arrow == player_info_pattern \o <<{" "}, {"-"}, {">"}, {" "}>>
kill_second(f, i, sp) ==
  Value({ IF Len(sp) # 2 \/ occ2 = {} THEN Skipped
          ELSE [f EXCEPT !.player = Before(f.content, i),
                         !.steam_id_64_1 = <<f.content[i + 3]>>,
                         !.player2 = Before(sp[1], MaxOf(occ2)),
                         !.weapon = sp[2],
                         !.steam_id_64_2 = <<sp[1][MaxOf(occ2) + 3]>>] :
          occ2 \in {Occurrences(sp[1], player_info_pattern)} })
kill_players(f) ==
  IF f.action \notin {<<"KILL">>, <<"TEAM", " ", "KILL">>} THEN f
  ELSE Value({
         IF occ = {} THEN Skipped
         ELSE Value({ kill_second(f, i, sp) :
                      i \in {MaxOf(occ)},
                      sp \in {rsplit1(From(f.content, MaxOf(occ) + Len(kill_arrow)),
                                      <<" ", "with", " ">>)} }) :
         occ \in {Occurrences(f.content, kill_arrow)} })

\* lines 837-937: the try block for one line.  time[1:] drops the "[" every
\* line of the corpus that has a time field begins with.
parse_line(line) ==
  Value({
    IF Len(sp) # 2 THEN Skipped
    ELSE Value({
      IF ~time.ok THEN Skipped
      ELSE Value({
        IF c.kind = "skipped" THEN Skipped
        ELSE Value({ kill_players(d) : d \in {connected_player(c)} }) :
        c \in {Value({ classify(f) : f \in {Locals(time.value, sp[2])} })} }) :
      time \in {extract_time(IF sp[1] = <<>> THEN <<>> ELSE Tail(sp[1]))} }) :
    sp \in {split1(line, <<"]", " ">>)} })

\* ------------------------------------------------------------- parse_logs
Truthy(x) == x # None /\ x # <<>>

Event_offset_from_epoch(line, f, now) ==
  [version |-> 1,
   timestamp_ms |-> f.time * 1000,
   relative_time_ms |-> f.time * 1000,
   raw |-> line,
   line_without_time |-> f.rest,
   action |-> f.action,
   player |-> f.player,
   steam_id_64_1 |-> f.steam_id_64_1,
   player2 |-> f.player2,
   steam_id_64_2 |-> f.steam_id_64_2,
   weapon |-> f.weapon,
   message |-> f.content,
   sub_content |-> f.sub_content]

\* lines 943-959: the dict appended for an emitted line; time and now are in
\* seconds since the epoch.
Event(line, f, now) ==
  [version |-> 1,
   timestamp_ms |-> f.time * 1000,
   relative_time_ms |-> (f.time - now) * 1000,
   raw |-> line,
   line_without_time |-> f.rest,
   action |-> f.action,
   player |-> f.player,
   steam_id_64_1 |-> f.steam_id_64_1,
   player2 |-> f.player2,
   steam_id_64_2 |-> f.steam_id_64_2,
   weapon |-> f.weapon,
   message |-> f.content,
   sub_content |-> f.sub_content]

\* lines 932-959, for a line the try block parsed into the locals f.  The
\* two filters are outside the try: action.startswith on action = None
\* raises AttributeError out of parse_logs.
after_try(acc, line, f, filter_a, filter_p, now) ==
  LET seen == [acc EXCEPT !.players = @ \cup {f.player, f.player2},
                          !.actions = @ \cup {f.action}]
  IN  IF Truthy(filter_a) /\ f.action = None
      THEN [seen EXCEPT !.status = "AttributeError"]
      ELSE IF Truthy(filter_a) /\ ~StartsWith(f.action, filter_a) THEN seen
      ELSE IF Truthy(filter_p) /\ ~Contains(line, filter_p) THEN seen
      ELSE [seen EXCEPT !.res = Append(@, Event(line, f, now))]

\* One pass of the loop body (lines 834-959).
loop_body(acc, line, filter_a, filter_p, now) ==
  IF acc.status # "running" \/ line = <<>> THEN acc
  ELSE Value({ IF f.kind = "skipped" THEN acc
               ELSE after_try(acc, line, f, filter_a, filter_p, now) :
               f \in {parse_line(line)} })

RECURSIVE loop(_, _, _, _, _, _)
loop(acc, lines, i, filter_a, filter_p, now) ==
  IF i > Len(lines) THEN acc
  ELSE Value({ loop(a, lines, i + 1, filter_a, filter_p, now) :
               a \in {loop_body(acc, lines[i], filter_a, filter_p, now)} })

Reverse_kept_order(s) == s

Reverse(s) == [i \in 1..Len(s) |-> s[Len(s) + 1 - i]]

\* lines 826-966.  list(actions) + synthetic_actions and list(players) are
\* kept as the sets of their members.
parse_logs_result(text, filter_a, filter_p, now) ==
  Value({ IF acc.status # "running"
          THEN [status |-> acc.status, actions |-> {}, players |-> {},
                logs |-> <<>>]
          ELSE [status |-> "returned",
                actions |-> acc.actions \cup LOG_ACTIONS,
                players |-> acc.players,
                logs |-> Reverse(acc.res)] :
          acc \in {Value({
             loop([status |-> "running", actions |-> {}, players |-> {},
                   res |-> <<>>], lines, 1, filter_a, filter_p, now) :
             lines \in {SplitLines(text)} })} })

\* ---------------------------------------------------------------- inputs
\* Kill lines are written from their parts, `[<time> (<epoch>)] <action>:
\* P1(<side>/ID1) -> P2(<side>/ID2) with W`.
KillLine(c) ==
  <<"[">> \o c.time \o <<" ", "(", c.epoch, ")", "]", " ">> \o c.action
    \o <<":", " ">> \o c.p1 \o <<"(", c.side1, "/", c.id1, ")">>
    \o <<" ", "-", ">", " ">> \o c.p2 \o <<"(", c.side2, "/", c.id2, ")">>
    \o <<" ", "with", " ">> \o c.weapon

\* The other lines raw texts are made of: lines for every branch of the
\* parser, and lines no branch extracts.
Line ==
  [ connected |->
      <<"[", "1", " ", "(", "100", ")", "]", " ", "CONNECTED", " ", "Alice">>,
    disconnected |->
      <<"[", "1", " ", "(", "100", ")", "]", " ", "DISCONNECTED", " ", "Bob">>,
    chat |->
      <<"[", "2", " ", "(", "160", ")", "]", " ", "CHAT", "[", "Team", "]",
        "[", "Alice", "(", "Allies", "/", "111", ")", "]", ":", " ", "hi">>,
    vote_started |->
      <<"[", "3", " ", "(", "160", ")", "]", " ", "VOTE", " ", "Player",
        " ", "[", "Alice", "]", " ", "Started", " ", "a", " ", "vote", " ",
        "of", " ", "type", " ", "(", "PVR_Kick_Abuse", ")", " ", "against",
        " ", "[", "Bob", "]", ".", " ", "VoteID", ":", " ", "[", "1", "]">>,
    vote_voted |->
      <<"[", "3", " ", "(", "160", ")", "]", " ", "VOTE", " ", "Player",
        " ", "[", "Bob", "]", " ", "voted", " ", "[", "PV_Favour", "]",
        " ", "for", " ", "VoteID", "[", "1", "]">>,
    vote_completed |->
      <<"[", "3", " ", "(", "160", ")", "]", " ", "VOTE", " ", "completed",
        ".", " ", "Result", ":", " ", "PVR_Passed">>,
    vote_kick |->
      <<"[", "3", " ", "(", "160", ")", "]", " ", "VOTE", " ", "Vote", " ",
        "Kick", " ", "{", "Bob", "}", " ", "successfully", " ", "passed",
        ".", " ", "[", "For", ":", " ", "2", "/", "1", " ", "-", " ",
        "Against", ":", " ", "0", "]">>,
    vote_other |->
      <<"[", "3", " ", "(", "160", ")", "]", " ", "VOTE", " ", "expired">>,
    camera |->
      <<"[", "3", " ", "(", "160", ")", "]", " ", "Player", " ", "[",
        "Alice", " ", "(", "111", ")", "]", " ", "Entered", " ", "Admin",
        " ", "Camera">>,
    teamswitch |->
      <<"[", "3", " ", "(", "160", ")", "]", " ", "TEAMSWITCH", " ",
        "Alice", " ", "(", "None", " ", ">", " ", "Allies", ")">>,
    kick |->
      <<"[", "3", " ", "(", "160", ")", "]", " ", "KICK", ":", " ", "[",
        "Bob", "]", " ", "has", " ", "been", " ", "kicked", ".", " ", "[",
        "KICKED", " ", "FOR", " ", "TEAM", " ", "KILLING", "!", "]">>,
    kick_banned |->
      <<"[", "3", " ", "(", "160", ")", "]", " ", "KICK", ":", " ", "[",
        "Eve", "]", " ", "has", " ", "been", " ", "kicked", ".", " ", "[",
        "BANNED", " ", "FOR", " ", "2", " ", "HOURS", " ", "FOR", " ",
        "TEAM", " ", "KILLING", "!", "]">>,
    match_start |->
      <<"[", "3", " ", "(", "160", ")", "]", " ", "MATCH", " ", "START",
        " ", "FOY", " ", "WARFARE">>,
    match_ended |->
      <<"[", "3", " ", "(", "160", ")", "]", " ", "MATCH", " ", "ENDED",
        " ", "FOY", " ", "WARFARE", " ", "ALLIED", " ", "(", "2", " ", "-",
        " ", "3", ")", " ", "AXIS">>,
    kick_unmatched |->
      <<"[", "3", " ", "(", "160", ")", "]", " ", "KICK", ":", " ", "Bob",
        " ", "FOR", " ", "TEAM", " ", "KILLING">>,
    teamswitch_unmatched |->
      <<"[", "3", " ", "(", "160", ")", "]", " ", "TEAMSWITCH", " ", "Alice">>,
    camera_unmatched |->
      <<"[", "3", " ", "(", "160", ")", "]", " ", "Player", " ", "Alice">>,
    killer |->
      <<"[", "3", " ", "(", "160", ")", "]", " ", "KILLER", ":", " ",
        "Alice">>,
    connectedx |->
      <<"[", "3", " ", "(", "160", ")", "]", " ", "CONNECTEDX", " ", "Alice">>,
    no_epoch |->
      <<"[", "3", "]", " ", "CONNECTED", " ", "Alice">>,
    unknown |->
      <<"[", "3", " ", "(", "160", ")", "]", " ", "HELLO">>,
    empty |->
      <<>> ]

\* A player as the log writes it, and the kill line of killer p, victim q.
Player(name, side, id) == [name |-> name, side |-> side, id |-> id]
Alice == Player(<<"Alice">>, "Allies", "111")
Bob == Player(<<"Bob">>, "Axis", "222")
Eve == Player(<<"Eve">>, "Axis", "333")
Kill(action, p, q, weapon) ==
  KillLine([time |-> <<"2">>, epoch |-> "160", action |-> action,
            p1 |-> p.name, side1 |-> p.side, id1 |-> p.id,
            p2 |-> q.name, side2 |-> q.side, id2 |-> q.id,
            weapon |-> weapon])
KILL == <<"KILL">>
TEAM_KILL == <<"TEAM", " ", "KILL">>

LogLines ==
  { Kill(KILL, Alice, Bob, <<"M1", " ", "GARAND">>),
    Kill(TEAM_KILL, Bob, Eve, <<"MP40">>) }
  \cup {Line[n] : n \in DOMAIN Line}

RECURSIVE JoinLines(_)
JoinLines(ls) ==
  IF ls = <<>> THEN <<>>
  ELSE IF Len(ls) = 1 THEN ls[1]
  ELSE ls[1] \o <<NL>> \o JoinLines(Tail(ls))

\* Raw texts: up to MaxLines lines, at most one of them from outside
\* CoreLines.
CoreLines ==
  { Kill(KILL, Alice, Bob, <<"M1", " ", "GARAND">>), Line.connected,
    Line.chat, Line.kick_unmatched, Line.killer, Line.empty }
LineSeqs ==
  {ls \in SeqsUpTo(LogLines, MaxLines) :
     Cardinality({i \in 1..Len(ls) : ls[i] \notin CoreLines}) <= 1}
Texts == {JoinLines(ls) : ls \in LineSeqs}
FilterActions == {None, <<"KILL">>}
FilterPlayers == {None, <<"Bob">>}

\* ---------------------------------------------------------------- actions
\* A call of parse_logs: datetime.now() is read once, at the call.
parse_logs(text, filter_a, filter_p) ==
  /\ log_pc = "idle"
  /\ log_pc' = "parsed"
  /\ raw' = text
  /\ filter_action' = filter_a
  /\ filter_player' = filter_p
  /\ batch' = parse_logs_result(text, filter_a, filter_p, log_now)
  /\ prev_batch' = NoBatch
  /\ UNCHANGED <<log_now, log_reply, sort_key, players_list, scoreboard>>
  /\ UNCHANGED <<rotVars, cacheVars, admVars>>

\* Time passes between two calls.
tick ==
  /\ log_pc = "parsed"
  /\ log_pc' = "later"
  /\ log_now' = log_now + 1
  /\ UNCHANGED <<raw, filter_action, filter_player, batch, prev_batch,
                 log_reply, sort_key, players_list, scoreboard>>
  /\ UNCHANGED <<rotVars, cacheVars, admVars>>

\* The same text is parsed again with the same filters.
parse_logs_again ==
  /\ log_pc \in {"parsed", "later"}
  /\ log_pc' = "reparsed"
  /\ batch' = parse_logs_result(raw, filter_action, filter_player, log_now)
  /\ prev_batch' = batch
  /\ UNCHANGED <<raw, filter_action, filter_player, log_now, log_reply,
                 sort_key, players_list, scoreboard>>
  /\ UNCHANGED <<rotVars, cacheVars, admVars>>

InitLogs == RotAtRest /\ CacheAtRest /\ LogAtRest /\ AdmAtRest

NextLogs ==
  \/ \E text \in Texts, filter_a \in FilterActions, filter_p \in FilterPlayers :
        parse_logs(text, filter_a, filter_p)
  \/ tick
  \/ parse_logs_again

SpecLogs == InitLogs /\ [][NextLogs]_vars

\* ====================================================================
\* SpecKill: parse_logs on kill lines written from their parts
\* ====================================================================
KillShapes ==
  [ time : { <<"2">>, <<"1", " ", "(", "3", ")">>, <<"a", "]", " ", "b">> },
    epoch : {"100", "160"},
    action : {KILL, TEAM_KILL},
    p1 : { <<"Alice">>, <<"a", " ", "-", ">", " ", "b">>,
           <<"Eve", "(", "Axis", "/", "3", ")">> },
    side1 : {"Allies"},
    id1 : {"111"},
    p2 : { <<"Bob">>, <<"man", " ", "with", " ", "hat">>,
           <<"Bob", "(", "Axis", "/", "222", ")", " ", "-", ">", " ", "Eve">> },
    side2 : {"Axis"},
    id2 : {"222"},
    weapon : { <<"MP40">>, <<"M1", " ", "GARAND">>,
               <<"M1", " ", "with", " ", "scope">> } ]

NextKill ==
  \E c \in KillShapes : parse_logs(KillLine(c), None, None)

SpecKill == InitLogs /\ [][NextKill]_vars

\* ====================================================================
\* SpecBoard: get_structured_logs and get_scoreboard
\* ====================================================================
\* What super().get_logs does: it returns the log text, it times out, or it
\* fails otherwise.
BoardLines ==
  { Kill(KILL, Alice, Bob, <<"MP40">>), Kill(KILL, Bob, Alice, <<"MP40">>),
    Kill(KILL, Eve, Bob, <<"MP40">>), Kill(KILL, Alice, Alice, <<"MP40">>),
    Kill(TEAM_KILL, Bob, Eve, <<"MP40">>), Line.connected, Line.killer }
BoardTexts == {JoinLines(ls) : ls \in SeqsUpTo(BoardLines, MaxLines)}
LogReplies ==
  [kind : {"text"}, text : BoardTexts]
    \cup [kind : {"socket.timeout", "CommandFailedError"}, text : {<<>>}]

\* lines 576-580: the text parse_logs is given, or the exception that leaves
\* get_structured_logs.
fetched_logs_timeout_propagated(reply) ==
  IF reply.kind = "text"
  THEN [raised |-> "none", raw |-> reply.text]
  ELSE [raised |-> reply.kind, raw |-> <<>>]

fetched_logs(reply) ==
  IF reply.kind = "text"
  THEN [raised |-> "none", raw |-> reply.text]
  ELSE IF reply.kind = "socket.timeout"
  THEN [raised |-> "none", raw |-> <<>>]
  ELSE [raised |-> reply.kind, raw |-> <<>>]

\* lines 572-582, on a call the ttl_cache does not answer.
structured_logs(reply, filter_a, filter_p, now) ==
  IF fetched_logs(reply).raised # "none"
  THEN [status |-> fetched_logs(reply).raised, actions |-> {},
        players |-> {}, logs |-> <<>>]
  ELSE parse_logs_result(fetched_logs(reply).raw, filter_a, filter_p, now)

\* "%.2f" % (kills / death): the hundredths, rounded to the nearest (to the
\* even one on a tie), as whole part and two digits.
Hundredths(kills, death) ==
  LET q == (100 * kills) \div death
      r == (100 * kills) % death
  IN  IF 2 * r > death \/ (2 * r = death /\ q % 2 = 1) THEN q + 1 ELSE q
FormatRatio(ratio) ==
  [whole |-> Hundredths(ratio[1], ratio[2]) \div 100,
   cents |-> Hundredths(ratio[1], ratio[2]) % 100]

\* The sort key o[sort] of an entry before formatting; the ratio
\* kills / max(death, 1) is kept as <<kills, max(death, 1)>>.
KeyLess(a, b, sort) ==
  IF sort = "ratio"
  THEN a.ratio[1] * b.ratio[2] < b.ratio[1] * a.ratio[2]
  ELSE a[sort] < b[sort]

\* lines 759-765: the counts of one player; the elif counts an event whose
\* player and player2 are both the player as a kill only.
count_kills(logs, player) ==
  Cardinality({i \in 1..Len(logs) : logs[i].player = player})
count_death(logs, player) ==
  Cardinality({i \in 1..Len(logs) :
                 logs[i].player # player /\ logs[i].player2 = player})

\* lines 756-776: the entries in the order the players are enumerated.
RECURSIVE entries(_, _)
entries(players, logs) ==
  IF players = <<>> THEN <<>>
  ELSE LET player == Head(players)
           kills == count_kills(logs, player)
           death == count_death(logs, player)
       IN  IF ~Truthy(player) \/ (kills = 0 /\ death = 0)
           THEN entries(Tail(players), logs)
           ELSE << [player |-> player] @@ ("(real) kills" :> kills)
                     @@ ("(real) death" :> death)
                     @@ [ratio |-> <<kills, IF death > 1 THEN death ELSE 1>>] >>
                  \o entries(Tail(players), logs)

\* line 778: sorted(..., reverse=True) is stable: an entry goes behind the
\* entries before it whose key is not less than its own.
sorted_desc_unstable(list, sort) ==
  LET RECURSIVE ins(_, _)
      ins(done, o) ==
        IF done = <<>> THEN <<o>>
        ELSE IF KeyLess(o, Head(done), sort)
             THEN <<Head(done)>> \o ins(Tail(done), o)
             ELSE <<o>> \o done
      RECURSIVE go(_, _)
      go(done, rest) ==
        IF rest = <<>> THEN done ELSE go(ins(done, Head(rest)), Tail(rest))
  IN  go(<<>>, list)

sorted_desc(list, sort) ==
  LET RECURSIVE ins(_, _)
      ins(done, o) ==
        IF done = <<>> THEN <<o>>
        ELSE IF ~KeyLess(Head(done), o, sort)
             THEN <<Head(done)>> \o ins(Tail(done), o)
             ELSE <<o>> \o done
      RECURSIVE go(_, _)
      go(done, rest) ==
        IF rest = <<>> THEN done ELSE go(ins(done, Head(rest)), Tail(rest))
  IN  go(<<>>, list)

\* lines 754-782, for logs["players"] enumerated in the order `players`.
scoreboard_of(players, logs, sort) ==
  LET sorted == sorted_desc(entries(players, logs), sort)
  IN  [i \in 1..Len(sorted) |->
         [sorted[i] EXCEPT !.ratio = FormatRatio(@)]]

\* The orders list(players) may have.
Orders(S) == {f \in [1..Cardinality(S) -> S] : Range(f) = S}
SortKeys == {"ratio", "(real) kills", "(real) death"}

\* ---------------------------------------------------------------- actions
get_structured_logs(reply, filter_a, filter_p) ==
  /\ log_pc = "idle"
  /\ log_pc' = "fetched"
  /\ log_reply' = reply.kind
  /\ raw' = fetched_logs(reply).raw
  /\ filter_action' = filter_a
  /\ filter_player' = filter_p
  /\ batch' = structured_logs(reply, filter_a, filter_p, log_now)
  /\ UNCHANGED <<log_now, prev_batch, sort_key, players_list, scoreboard>>
  /\ UNCHANGED <<rotVars, cacheVars, admVars>>

\* get_scoreboard with its call of get_structured_logs(minutes, "KILL"); an
\* exception of that call leaves get_scoreboard too.
get_scoreboard(reply, sort) ==
  /\ log_pc = "idle"
  /\ log_pc' = "scored"
  /\ log_reply' = reply.kind
  /\ raw' = fetched_logs(reply).raw
  /\ filter_action' = KILL
  /\ filter_player' = None
  /\ sort_key' = sort
  /\ batch' = structured_logs(reply, KILL, None, log_now)
  /\ IF batch'.status = "returned"
     THEN /\ players_list' \in Orders(batch'.players)
          /\ scoreboard' = scoreboard_of(players_list', batch'.logs, sort)
     ELSE UNCHANGED <<players_list, scoreboard>>
  /\ UNCHANGED <<log_now, prev_batch>>
  /\ UNCHANGED <<rotVars, cacheVars, admVars>>

NextBoard ==
  \/ \E reply \in LogReplies, filter_a \in FilterActions,
        filter_p \in FilterPlayers :
        get_structured_logs(reply, filter_a, filter_p)
  \/ \E reply \in LogReplies, sort \in SortKeys : get_scoreboard(reply, sort)

SpecBoard == InitLogs /\ [][NextBoard]_vars

\* ====================================================================
\* Properties of parse_logs (checked under SpecLogs)
\* ====================================================================
Called == log_pc \in {"parsed", "reparsed"}      \* batch was just computed
Returned == Called /\ batch.status = "returned"
Emitted(line) == \E i \in 1..Len(batch.logs) : batch.logs[i].raw = line

\* C11: every event parse_logs emits has a timestamp and a non-empty action
\* of the closed vocabulary of the Event data model, and no line is emitted
\* that cannot be classified or whose sub-fields fail to extract (a KICK,
\* TEAMSWITCH or PLAYER line its pattern does not match, KILL or CONNECTED
\* followed by other characters).
C11_EmittedInVocabulary ==
  LET scopes == {"Team", "Unit"}
      vocabulary ==
        { <<"CONNECTED">>, <<"DISCONNECTED">>, <<"KILL">>,
          <<"TEAM", " ", "KILL">>, <<"VOTE">>, <<"VOTE", " ", "STARTED">>,
          <<"VOTE", " ", "COMPLETED">>, <<"CAMERA">>, <<"TEAMSWITCH">>,
          <<"TK", " ", "KICKED">>,
          <<"TK", " ", "BANNED", " ", "FOR", " ", "2", " ", "HOURS">>,
          <<"MATCH", " ", "START">>, <<"MATCH", " ", "ENDED">> }
        \cup {<<"CHAT", "[", side, "]", "[", scope, "]">> :
                side \in Sides, scope \in scopes}
      unextracted ==
        { Line.kick_unmatched, Line.teamswitch_unmatched,
          Line.camera_unmatched, Line.killer, Line.connectedx,
          Line.no_epoch, Line.unknown }
  IN  Returned =>
        /\ \A i \in 1..Len(batch.logs) :
             /\ batch.logs[i].timestamp_ms \in Nat
             /\ batch.logs[i].action # None
             /\ batch.logs[i].action # <<>>
             /\ batch.logs[i].action \in vocabulary
        /\ \A line \in unextracted : ~Emitted(line)

\* C12: parse_logs never raises because of a bad line: whatever the text and
\* the filters, the call returns a batch.
C12_NeverRaises == Called => batch.status = "returned"

\* C13: the events are in the reverse of the input order of the lines they
\* were emitted for.
C13_Reversal ==
  Returned =>
    LET Kept(line) ==
          /\ line # <<>>
          /\ parse_line(line).kind # "skipped"
          /\ Truthy(filter_action) =>
               StartsWith(parse_line(line).action, filter_action)
          /\ Truthy(filter_player) => Contains(line, filter_player)
    IN  [i \in 1..Len(batch.logs) |->
           batch.logs[Len(batch.logs) + 1 - i].raw]
          = SelectSeq(SplitLines(raw), Kept)

\* Two different lines were emitted from one text.
C13_Witness ==
  /\ Returned
  /\ Len(batch.logs) >= 2
  /\ batch.logs[1].raw # batch.logs[2].raw

\* C14: the filters restrict only the logs list: players and actions are
\* those of the unfiltered parse, and logs holds exactly the events whose
\* action starts with filter_action and whose line contains filter_player.
C14_FiltersOnlyRestrictLogs ==
  Called =>
    LET all == parse_logs_result(raw, None, None, log_now)
        Passes(e) ==
          /\ Truthy(filter_action) => StartsWith(e.action, filter_action)
          /\ Truthy(filter_player) => Contains(e.raw, filter_player)
    IN  /\ batch.status = "returned"
        /\ batch.players = all.players
        /\ batch.actions = all.actions
        /\ batch.logs = SelectSeq(all.logs, Passes)

\* C15: the returned actions hold every member of the closed vocabulary of
\* the Event data model, whatever was observed in the text.
C15_FullVocabulary ==
  LET scopes == {"Team", "Unit"}
      full ==
        { <<"CONNECTED">>, <<"DISCONNECTED">>, <<"KILL">>,
          <<"TEAM", " ", "KILL">>, <<"VOTE">>, <<"VOTE", " ", "STARTED">>,
          <<"VOTE", " ", "COMPLETED">>, <<"CAMERA">>, <<"TEAMSWITCH">>,
          <<"TK", " ", "KICKED">>,
          <<"TK", " ", "BANNED", " ", "FOR", " ", "2", " ", "HOURS">>,
          <<"MATCH", " ", "START">>, <<"MATCH", " ", "ENDED">> }
        \cup {<<"CHAT", "[", side, "]", "[", scope, "]">> :
                side \in Sides, scope \in scopes}
  IN  Returned => full \subseteq batch.actions

WithoutRelativeTime(b) ==
  [b EXCEPT !.logs = [i \in 1..Len(b.logs) |->
                        [b.logs[i] EXCEPT !.relative_time_ms = 0]]]
KillEventOf(c) ==
  [action |-> c.action, player |-> c.p1, steam_id_64_1 |-> <<c.id1>>,
   player2 |-> c.p2, steam_id_64_2 |-> <<c.id2>>, weapon |-> c.weapon,
   timestamp_ms |-> IntOf(c.epoch) * 1000]
ExtractedAs(c) ==
  /\ batch.status = "returned"
  /\ Len(batch.logs) = 1
  /\ [n \in DOMAIN KillEventOf(c) |-> batch.logs[1][n]] = KillEventOf(c)

Unambiguous(c) ==
  /\ Occurrences(c.time, <<{"]"}>>) = {}
  /\ Occurrences(c.weapon, <<{"with"}>>) = {}
  /\ Occurrences(c.p2 \o c.weapon, Lit(<<" ", "-", ">", " ">>)) = {}
Scored == log_pc = "scored" /\ batch.status = "returned"
Max1(n) == IF n > 1 THEN n ELSE 1
\* The KILL events of the batch the fetched text holds.
KillEvents ==
  Value({ {i \in 1..Len(all) : all[i].action = KILL} :
          all \in {parse_logs_result(raw, None, None, log_now).logs} })
AllEvents == parse_logs_result(raw, None, None, log_now).logs
KillsOf(p) ==
  Value({ Cardinality({i \in KillEvents : all[i].player = p}) :
          all \in {AllEvents} })
DeathsOf(p) ==
  Value({ Cardinality({i \in KillEvents : all[i].player2 = p}) :
          all \in {AllEvents} })
Board(i, key) == scoreboard[i][key]

\* C18: every entry of the scoreboard has kills = the number of KILL events
\* with its player as primary actor, deaths = the number of KILL events with
\* its player as secondary actor and ratio = kills / max(deaths, 1) to two
\* decimals; no entry has 0 kills and 0 deaths; every named player with a
\* kill or a death has an entry.
C18_ScoreboardLaw ==
  Scored =>
    /\ \A i \in DOMAIN scoreboard :
         /\ Board(i, "(real) kills") = KillsOf(scoreboard[i].player)
         /\ Board(i, "(real) death") = DeathsOf(scoreboard[i].player)
         /\ scoreboard[i].ratio =
              FormatRatio(<<KillsOf(scoreboard[i].player),
                            Max1(DeathsOf(scoreboard[i].player))>>)
         /\ ~(Board(i, "(real) kills") = 0 /\ Board(i, "(real) death") = 0)
    /\ \A p \in batch.players :
         (Truthy(p) /\ KillsOf(p) + DeathsOf(p) > 0)
           => \E i \in DOMAIN scoreboard : scoreboard[i].player = p

\* The numeric key of entry i is less than that of entry j.
BoardLess(i, j) ==
  IF sort_key = "ratio"
  THEN Board(i, "(real) kills") * Max1(Board(j, "(real) death"))
         < Board(j, "(real) kills") * Max1(Board(i, "(real) death"))
  ELSE Board(i, sort_key) < Board(j, sort_key)
Enumerated(i) ==
  CHOOSE n \in DOMAIN players_list : players_list[n] = scoreboard[i].player

\* C19: the scoreboard is in descending order of the selected key, compared
\* numerically, and entries with equal key are in the order in which their
\* players were enumerated.
C19_SortedStable ==
  Scored =>
    \A i, j \in DOMAIN scoreboard :
      i < j => /\ ~BoardLess(i, j)
               /\ ~BoardLess(j, i) => Enumerated(i) < Enumerated(j)

\* Three entries, the first two tied on the ratio, the last one enumerated
\* before the first.
C19_Witness ==
  /\ Scored
  /\ sort_key = "ratio"
  /\ Len(scoreboard) = 3
  /\ ~BoardLess(1, 2) /\ ~BoardLess(2, 1)
  /\ BoardLess(3, 1)
  /\ Enumerated(3) < Enumerated(1)

\* C20: when the remote fetch times out get_structured_logs returns what
\* parse_logs returns for the empty text, a batch with no logs and no
\* players; any other failure of the remote leaves get_structured_logs.
C20_TimeoutIsEmptyResult ==
  log_pc = "fetched" =>
    /\ log_reply = "socket.timeout" =>
         /\ batch.status = "returned"
         /\ batch.logs = <<>>
         /\ batch.players = {}
         /\ batch = parse_logs_result(<<>>, filter_action, filter_player,
                                      log_now)
    /\ log_reply \notin {"text", "socket.timeout"} =>
         batch.status = log_reply

C20_Witness ==
  /\ log_pc = "fetched"
  /\ log_reply = "socket.timeout"
  /\ batch.status = "returned"
  /\ filter_action = KILL

\* ====================================================================
\* Cached getters with a check of the remote text (specifications SpecInfo, SpecChecked)
\* ====================================================================
\* ttl_cache around a getter: a stored entry is returned without running the
\* body; otherwise the body runs, an exception leaves the getter and stores
\* nothing, and a returned value is stored unless it is falsy and the getter
\* was declared with cache_falsy=False.
Falsy(value) == value = <<>>
ttl_cache(entry, outcome, cache_falsy) ==
  IF entry # <<>>
  THEN [called |-> FALSE, status |-> "returned", value |-> entry[1],
        entry |-> entry]
  ELSE [called |-> TRUE, status |-> outcome.status, value |-> outcome.value,
        entry |-> IF outcome.status # "returned" THEN <<>>
                  ELSE IF ~cache_falsy /\ Falsy(outcome.value) THEN <<>>
                  ELSE <<outcome.value>>]

Returns(value) == [status |-> "returned", value |-> value]
Raises(error) == [status |-> error, value |-> <<>>]

\* ------------------------------------------------------- get_player_info
\* What the remote answers to the detail lookup: the record of a player, a
\* record with an empty id line, a text of one line, or a failure.
PlayerNames == {<<"Bob">>, <<"Eve">>}
PlayerInfoShapes ==
  [kind : {"record"}, name : PlayerNames \cup {<<"Eve", ":", " ", "Bob">>},
   id : {"222"}]
    \cup [kind : {"no_id", "one_line", Raised}, name : {<<"Bob">>},
          id : {"222"}]
InfoText(c) ==
  CASE c.kind = "record" ->
         <<"Name", ":", " ">> \o c.name
           \o <<NL, "steamID64", ":", " ", c.id, NL, "Team", ":", " ", "Axis">>
    [] c.kind = "no_id" -> <<"Name", ":", " ">> \o c.name \o <<NL, NL>>
    [] c.kind = "one_line" -> <<"FAIL">>
    [] OTHER -> <<>>
\* get_playerids(as_dict=True): name -> steam id, or a failure of the remote.
PlayerIds ==
  {[kind |-> "dict", pairs |-> {}],
   [kind |-> "dict", pairs |-> {<<<<"Bob">>, <<"222">>>>}],
   [kind |-> Raised, pairs |-> {}]}
\* dict.get(name): the id of the name, None when the name is not a key.
DictGet(pairs, name) ==
  IF \E p \in pairs : p[1] = name
  THEN (CHOOSE p \in pairs : p[1] = name)[2] ELSE None

\* s.split(": ", 1)[-1]
AfterColon(s) ==
  Value({ parts[Len(parts)] : parts \in {split1(s, <<":", " ">>)} })

\* lines 115-133, with name and steam_id_64 as the try block left them.
info_checked_name_ignored(player, name, steam_id_64) ==
  Returns(("name" :> AfterColon(name))
            @@ ("steam_id_64" :> AfterColon(steam_id_64))
            @@ ("FR" :> <<"FR">>) @@ ("bans" :> <<"bans">>))

info_checked(player, name, steam_id_64) ==
  IF AfterColon(name) # player THEN Returns(<<>>)
  ELSE Returns(("name" :> AfterColon(name))
                 @@ ("steam_id_64" :> AfterColon(steam_id_64))
                 @@ ("FR" :> <<"FR">>) @@ ("bans" :> <<"bans">>))

\* lines 99-133: the body of get_player_info.
get_player_info_body(player, c, ids) ==
  IF c.kind = Raised
  THEN IF ids.kind = Raised THEN Returns(<<>>)
       ELSE IF ~Truthy(DictGet(ids.pairs, player)) THEN Returns(<<>>)
       ELSE info_checked(player, player, DictGet(ids.pairs, player))
  ELSE Value({ IF Len(lines) < 2 THEN Returns(<<>>)
               ELSE IF ~Truthy(lines[2]) THEN Returns(<<>>)
               ELSE info_checked(player, lines[1], lines[2]) :
               lines \in {SplitLines(InfoText(c))} })

\* ----------------------------------- get_slots, get_map, get_name, rotation
\* The texts are sequences of characters here.
DigitChars == {"0", "1", "2", "3", "4", "5", "6", "7", "8", "9"}
WordChars == DigitChars \cup {"a", "f", "o", "y", "_"}
\* `$` of re.match: the end of the text, or just before a last "\n".
UpToDollar(text) ==
  IF text # <<>> /\ text[Len(text)] = NL THEN SubSeq(text, 1, Len(text) - 1)
  ELSE text
\* r"^\d{1,3}/\d{2,3}$"
slots_regexp(text) ==
  \E i \in 2..4 :
    /\ i <= Len(UpToDollar(text))
    /\ UpToDollar(text)[i] = "/"
    /\ Len(UpToDollar(text)) - i \in 2..3
    /\ \A j \in 1..Len(UpToDollar(text)) :
         j # i => UpToDollar(text)[j] \in DigitChars
\* r"^(\w+_?)+$"
map_regexp(text) ==
  /\ UpToDollar(text) # <<>>
  /\ \A j \in 1..Len(UpToDollar(text)) : UpToDollar(text)[j] \in WordChars
MAX_SERV_NAME_LEN == 1024

Failed == Raises(Raised)
\* (variant: get_slots returns whatever the remote sent)
checked_body_slots_unchecked(getter, reply) ==
  CASE reply.kind = Raised -> Failed
    [] getter = "get_slots" -> Returns(reply.text)
    [] getter = "get_map" ->
         IF ~map_regexp(reply.text) THEN Failed ELSE Returns(reply.text)
    [] getter = "get_name" ->
         IF Len(reply.text) > MAX_SERV_NAME_LEN THEN Failed
         ELSE Returns(reply.text)
    [] getter = "get_map_rotation" ->
         IF \E i \in 1..Len(reply.text) : ~map_regexp(reply.text[i])
         THEN Failed ELSE Returns(reply.text)

\* lines 385-397, 509-514, 679-686: the bodies of the four getters, for the
\* reply of the remote (a text, for the rotation a list of texts).
checked_body(getter, reply) ==
  CASE reply.kind = Raised -> Failed
    [] getter = "get_slots" ->
         IF ~slots_regexp(reply.text) THEN Failed ELSE Returns(reply.text)
    [] getter = "get_map" ->
         IF ~map_regexp(reply.text) THEN Failed ELSE Returns(reply.text)
    [] getter = "get_name" ->
         IF Len(reply.text) > MAX_SERV_NAME_LEN THEN Failed
         ELSE Returns(reply.text)
    [] getter = "get_map_rotation" ->
         IF \E i \in 1..Len(reply.text) : ~map_regexp(reply.text[i])
         THEN Failed ELSE Returns(reply.text)

Chars(n, c) == [i \in 1..n |-> c]
SlotTexts ==
  { <<"1", "/", "1", "0">>, <<"1", "0", "0", "/", "1", "0", "0">>,
    <<"1", "/", "1", "0", NL>>, <<"1", "/", "5">>, <<"1", "/">>,
    <<"1", "0", "0", "0", "/", "1", "0">>, <<"1", "/", "1", "0", "0", "0">>,
    <<"a", "/", "1", "0">>, <<"1", "/", "1", "0", " ">>,
    <<"1", "/", "1", "0", NL, NL>>, <<"1", "1", "0">>, <<>> }
MapTexts ==
  { <<"f", "o", "y", "_", "a">>, <<"f", "o", " ", "y">>,
    <<"f", "o", "y", NL>>, <<"f", "o", "y", "-">>, <<>> }
NameTexts ==
  { <<"f", "o", " ", "y">>, Chars(MAX_SERV_NAME_LEN, "a"),
    Chars(MAX_SERV_NAME_LEN + 1, "a") }
RotationTexts ==
  { <<>>, << <<"f", "o", "y">> >>, << <<"f", "o", "y">>, <<"f", "o", " ", "y">> >>,
    << <<>>, <<"f", "o", "y">> >>, << <<"f", "o", "y">>, <<"f", "o", "y", "_", "a">> >> }
CheckedGetters == {"get_slots", "get_map", "get_name", "get_map_rotation"}
GetterReplies(getter) ==
  {[kind |-> Raised, text |-> <<>>]} \cup
    [kind : {"text"},
     text : CASE getter = "get_slots" -> SlotTexts
              [] getter = "get_map" -> MapTexts
              [] getter = "get_name" -> NameTexts
              [] getter = "get_map_rotation" -> RotationTexts]

\* ---------------------------------------------------------------- actions
\* The entry of a key, <<>> when nothing is stored.
Entry(c, k) == IF k \in DOMAIN c THEN c[k] ELSE <<>>
Store(c, k, entry) ==
  IF entry = <<>> THEN [x \in DOMAIN c \ {k} |-> c[x]]
  ELSE [x \in (DOMAIN c \cup {k}) |-> IF x = k THEN entry ELSE c[x]]
\* The reply the remote gave to the call just before, when that call was made
\* with the same key and stored nothing.
Again(k) ==
  IF adm_last.op # "none" /\ adm_last.key = k /\ adm_last.called
       /\ adm_last.entry = <<>>
  THEN adm_last.reply ELSE [kind |-> "none"]

get_player_info(player, c, ids) ==
  /\ LET k == <<"get_player_info", player>>
         r == ttl_cache(Entry(adm_cache, k),
                        get_player_info_body(player, c, ids), FALSE)
     IN  /\ adm_cache' = Store(adm_cache, k, r.entry)
         /\ adm_last' = [op |-> "get_player_info", key |-> k, reply |-> c,
                         called |-> r.called, status |-> r.status,
                         value |-> r.value, entry |-> r.entry,
                         again |-> Again(k)]
  /\ UNCHANGED adm_remote
  /\ UNCHANGED <<rotVars, cacheVars, logVars>>

\* get_slots, get_map, get_name and get_map_rotation.
get_checked(getter, reply) ==
  /\ LET k == <<getter, <<>>>>
         r == ttl_cache(Entry(adm_cache, k), checked_body(getter, reply), TRUE)
     IN  /\ adm_cache' = Store(adm_cache, k, r.entry)
         /\ adm_last' = [op |-> getter, key |-> k, reply |-> reply,
                         called |-> r.called, status |-> r.status,
                         value |-> r.value, entry |-> r.entry,
                         again |-> Again(k)]
  /\ UNCHANGED adm_remote
  /\ UNCHANGED <<rotVars, cacheVars, logVars>>

\* The ttl of an entry runs out.
expire_entry(k) ==
  /\ Entry(adm_cache, k) # <<>>
  /\ adm_cache' = Store(adm_cache, k, <<>>)
  /\ adm_last' = [op |-> "none"]
  /\ UNCHANGED adm_remote
  /\ UNCHANGED <<rotVars, cacheVars, logVars>>

InitAdmin == RotAtRest /\ CacheAtRest /\ LogAtRest /\ AdmAtRest

NextInfo ==
  \/ \E player \in PlayerNames, c \in PlayerInfoShapes, ids \in PlayerIds :
       get_player_info(player, c, ids)
  \/ \E k \in DOMAIN adm_cache : expire_entry(k)

SpecInfo == InitAdmin /\ [][NextInfo]_vars

NextChecked ==
  \/ \E getter \in CheckedGetters : \E reply \in GetterReplies(getter) :
       get_checked(getter, reply)
  \/ \E k \in DOMAIN adm_cache : expire_entry(k)

SpecChecked == InitAdmin /\ [][NextChecked]_vars

\* ====================================================================
\* The server settings (specification SpecSettings)
\* ====================================================================
\* Rcon.settings
settings ==
  {"team_switch_cooldown", "autobalance_threshold", "idle_autokick_time",
   "max_ping_autokick", "queue_length", "vip_slots_num",
   "autobalance_enabled", "votekick_enabled", "votekick_threshold"}
\* f"get_{name}" as a cache key; the other cached getters followed here.
SettingGetter(name) == <<"get_", name>>
OtherGetters ==
  {<<"get_players", "">>, <<"get_vip_ids", "">>, <<"get_map_rotation", "">>}
SettingKeys == {SettingGetter(name) : name \in settings} \cup OtherGetters

\* (variant: set_queue_length names the getter of vip_slots_num)
set_invalidates_wrong_getter(name) ==
  IF name = "queue_length" THEN {SettingGetter("vip_slots_num")}
  ELSE {SettingGetter(name)}

\* The getters named in `with invalidates(...)` of set_<name>
\* (lines 403-445 and 603-613).
set_invalidates(name) ==
  CASE name = "team_switch_cooldown" -> {SettingGetter("team_switch_cooldown")}
    [] name = "autobalance_threshold" ->
         {SettingGetter("autobalance_threshold")}
    [] name = "idle_autokick_time" -> {SettingGetter("idle_autokick_time")}
    [] name = "max_ping_autokick" -> {SettingGetter("max_ping_autokick")}
    [] name = "queue_length" -> {SettingGetter("queue_length")}
    [] name = "vip_slots_num" -> {SettingGetter("vip_slots_num")}
    [] name = "autobalance_enabled" -> {SettingGetter("autobalance_enabled")}
    [] name = "votekick_enabled" -> {SettingGetter("votekick_enabled")}
    [] name = "votekick_threshold" -> {SettingGetter("votekick_threshold")}

\* The `with` block of set_<name> raises: the remote call raised, or
\* set_votekick_threshold got an error text (line 617).
set_raises(name, res) ==
  \/ res = Raised
  \/ name = "votekick_threshold" /\ StartsWithError(res)

\* invalidates(...) around a body: the named entries are purged when the
\* body has not raised.
Purge(c, keys, raised) ==
  IF raised THEN c
  ELSE [k \in DOMAIN c \ keys |-> c[k]]

\* A cached getter of SettingKeys is called.
read_cached(k) ==
  /\ adm_cache' = Store(adm_cache, k, ttl_cache(Entry(adm_cache, k),
                                                Returns("value"), TRUE).entry)
  /\ adm_last' = [op |-> "read"]
  /\ UNCHANGED adm_remote
  /\ UNCHANGED <<rotVars, cacheVars, logVars>>

\* do_save_setting(name, value): ValueError for a name that is no setting,
\* otherwise set_<name>(value), whose remote call comes back with res.
do_save_setting(name, res) ==
  /\ adm_cache' = IF name \notin settings THEN adm_cache
                  ELSE Purge(adm_cache, set_invalidates(name),
                             set_raises(name, res))
  /\ adm_last' = [op |-> "do_save_setting", name |-> name, reply |-> res,
                  status |-> IF name \notin settings THEN "ValueError"
                             ELSE IF set_raises(name, res) THEN Raised
                             ELSE "returned",
                  pre |-> adm_cache]
  /\ UNCHANGED adm_remote
  /\ UNCHANGED <<rotVars, cacheVars, logVars>>

SettingReplies(name) ==
  {"SUCCESS", Raised}
    \cup (IF name = "votekick_threshold" THEN {"Error: bad pairs"} ELSE {})

NextSettings ==
  \/ \E k \in SettingKeys : read_cached(k)
  \/ \E name \in settings \cup {"map"} : \E res \in SettingReplies(name) :
       do_save_setting(name, res)

SpecSettings == InitAdmin /\ [][NextSettings]_vars

\* ====================================================================
\* do_randomize_map_rotation (specification SpecRandom)
\* ====================================================================
\* get_maps(): the maps the server knows.
AllMaps == [i \in 1..NumMaps |-> MapNames[i]]
\* random.shuffle(maps): the orders the list can be left in.
Shuffles(maps) ==
  {o \in [1..Len(maps) -> Range(maps)] :
     \A x \in Range(maps) :
       Cardinality({i \in 1..Len(maps) : o[i] = x})
         = Cardinality({i \in 1..Len(maps) : maps[i] = x})}

\* lines 707-710: maps or get_maps(), the cached read of the rotation, the
\* shuffle (in place: `order` is what the list holds from then on).
do_randomize_map_rotation(maps, order) ==
  /\ pc = "idle"
  /\ remote_rotation \in ServerRotations
  /\ arg' = order
  /\ rotation' = order
  /\ current' = get_map_rotation_value
  /\ rotation_cache' = get_map_rotation_cache
  /\ ops' = <<>>
  /\ start' = remote_rotation
  /\ idx' = 0
  /\ m' = NoMap
  /\ pc' = "random_loop"
  /\ UNCHANGED <<remote_rotation, first, to_remove>>
  /\ UNCHANGED <<cacheVars, logVars, admVars>>

\* lines 712-714: `if m in current: self.do_remove_map_from_rotation(m)`
random_remove ==
  /\ pc = "random_loop"
  /\ idx < Len(rotation)
  /\ rotation[idx + 1] \in Range(current)
  /\ m' = rotation[idx + 1]
  /\ do_remove_map_from_rotation(rotation[idx + 1])
  /\ pc' = "random_removed"
  /\ UNCHANGED <<arg, rotation, current, idx, first, to_remove, start>>
  /\ UNCHANGED <<cacheVars, logVars, admVars>>

\* line 715: `self.do_add_map_to_rotation(m)`, after the remove if there was
\* one.
random_add ==
  /\ \/ pc = "random_removed"
     \/ /\ pc = "random_loop"
        /\ idx < Len(rotation)
        /\ rotation[idx + 1] \notin Range(current)
  /\ m' = rotation[idx + 1]
  /\ do_add_map_to_rotation(rotation[idx + 1])
  /\ idx' = idx + 1
  /\ pc' = "random_loop"
  /\ UNCHANGED <<arg, rotation, current, first, to_remove, start>>
  /\ UNCHANGED <<cacheVars, logVars, admVars>>

\* line 717: return maps
random_return ==
  /\ pc = "random_loop"
  /\ idx = Len(rotation)
  /\ pc' = "returned"
  /\ UNCHANGED <<remote_rotation, rotation_cache, arg, rotation, current, idx,
                 m, first, to_remove, ops, start>>
  /\ UNCHANGED <<cacheVars, logVars, admVars>>

NextRandom ==
  \/ get_map_rotation
  \/ \E maps \in Rotations :
       \E order \in Shuffles(IF maps = <<>> THEN AllMaps ELSE maps) :
         do_randomize_map_rotation(maps, order)
  \/ random_remove
  \/ random_add
  \/ random_return
  \/ call_done

SpecRandom == Init /\ [][NextRandom]_vars

\* ====================================================================
\* Kicks and bans (specification SpecBans)
\* ====================================================================
\* The remote holds the connected players and the two ban lists; a ban log
\* reads `<id> : nickname "<name>" banned`.
SteamIdOf(player) == IF player = <<"Bob">> THEN <<"222">> ELSE <<"333">>
BanLog(id) == id \o <<" ", ":", " ", "nickname", " ", "x", " ", "banned">>
BansAtRest ==
  /\ adm_remote = [players |-> PlayerNames, temp |-> <<>>, perma |-> <<>>]
  /\ adm_cache = NoEntries
  /\ adm_last = [op |-> "none"]

BanGetters ==
  {<<"get_players", "">>, <<"get_temp_bans", "">>, <<"get_perma_bans", "">>}
\* What super().get_players / get_temp_bans / get_perma_bans return.
RemoteData(rem, k) ==
  CASE k[1] = "get_players" -> rem.players
    [] k[1] = "get_temp_bans" -> rem.temp
    [] k[1] = "get_perma_bans" -> rem.perma

\* lines 242-262: the three getters under ttl_cache.
CachedData(c, rem, k) ==
  ttl_cache(Entry(c, k), Returns(RemoteData(rem, k)), TRUE).value
CacheRead(c, rem, k) ==
  Store(c, k, ttl_cache(Entry(c, k), Returns(RemoteData(rem, k)), TRUE).entry)

\* lines 264-296, the fields do_unban and get_ban look at: the id is what
\* stands before the first " :".
struct_ban(ban, type_) ==
  [type |-> type_, steam_id_64 |-> split1(ban, <<" ", ":">>)[1], raw |-> ban]

\* lines 298-303
get_bans(c, rem) ==
  Value({ [i \in 1..Len(temp) |-> struct_ban(temp[i], "temp")]
            \o Reverse([i \in 1..Len(perma) |-> struct_ban(perma[i], "perma")]) :
          temp \in {CachedData(c, rem, <<"get_temp_bans", "">>)},
          perma \in {CachedData(c, rem, <<"get_perma_bans", "">>)} })
CacheAfterBans(c, rem) ==
  CacheRead(CacheRead(c, rem, <<"get_temp_bans", "">>), rem,
            <<"get_perma_bans", "">>)
\* (variant: every ban matches)
Matching_any(bans, steam_id_64) == bans

\* lines 312 and 322: the bans whose steam_id_64 is the id asked for.
Matching(bans, steam_id_64) ==
  SelectSeq(bans, LAMBDA b : b.steam_id_64 = steam_id_64)

\* (variant: do_temp_ban names the player list only)
ban_invalidates_players_only(op) ==
  CASE op = "do_kick" -> {<<"get_players", "">>}
    [] op = "do_temp_ban" -> {<<"get_players", "">>}
    [] op = "do_perma_ban" -> {<<"get_players", "">>, <<"get_perma_bans", "">>}
    [] op = "do_remove_temp_ban" -> {<<"get_temp_bans", "">>}
    [] op = "do_remove_perma_ban" -> {<<"get_perma_bans", "">>}

\* The getters named in `with invalidates(...)` (lines 649-677).
ban_invalidates(op) ==
  CASE op = "do_kick" -> {<<"get_players", "">>}
    [] op = "do_temp_ban" -> {<<"get_players", "">>, <<"get_temp_bans", "">>}
    [] op = "do_perma_ban" -> {<<"get_players", "">>, <<"get_perma_bans", "">>}
    [] op = "do_remove_temp_ban" -> {<<"get_temp_bans", "">>}
    [] op = "do_remove_perma_ban" -> {<<"get_perma_bans", "">>}

\* The remote after a command that succeeded: a kick takes the player off the
\* server, a ban also appends its log to the list (once per id), a removal
\* deletes the log.
WithoutLog(list, ban) == SelectSeq(list, LAMBDA b : b # ban)
WithLog(list, ban) ==
  IF \E i \in 1..Len(list) : list[i] = ban THEN list ELSE Append(list, ban)
RemoteAfterCommand(rem, op, player, id) ==
  CASE op = "do_kick" -> [rem EXCEPT !.players = @ \ {player}]
    [] op = "do_temp_ban" ->
         [rem EXCEPT !.players = {p \in @ : SteamIdOf(p) # id},
                     !.temp = WithLog(@, BanLog(id))]
    [] op = "do_perma_ban" ->
         [rem EXCEPT !.players = {p \in @ : SteamIdOf(p) # id},
                     !.perma = WithLog(@, BanLog(id))]

\* ---------------------------------------------------------------- actions
\* get_players, get_temp_bans or get_perma_bans is called.
read_bans_getter(k) ==
  /\ adm_cache' = CacheRead(adm_cache, adm_remote, k)
  /\ adm_last' = [op |-> k[1], called |-> Entry(adm_cache, k) = <<>>,
                  value |-> CachedData(adm_cache, adm_remote, k)]
  /\ UNCHANGED adm_remote
  /\ UNCHANGED <<rotVars, cacheVars, logVars>>

\* lines 649-651
do_kick(player, res) ==
  /\ res = "SUCCESS" => player \in adm_remote.players
  /\ adm_remote' = IF res = "SUCCESS"
                   THEN RemoteAfterCommand(adm_remote, "do_kick", player, None)
                   ELSE adm_remote
  /\ adm_cache' = Purge(adm_cache, ban_invalidates("do_kick"), res = Raised)
  /\ adm_last' = [op |-> "do_kick", reply |-> res, pre |-> adm_cache]
  /\ UNCHANGED <<rotVars, cacheVars, logVars>>

\* lines 653-662 and 672-677: do_temp_ban and do_perma_ban.  The id of a
\* player who is on the server is dropped and the remote bans by name.
do_ban(op, player, steam_id_64, res) ==
  LET in_game == Truthy(player) /\ player \in adm_remote.players
      id == IF in_game THEN SteamIdOf(player) ELSE steam_id_64
  IN  /\ res = "SUCCESS" => (in_game \/ Truthy(steam_id_64))
      /\ adm_remote' = IF res = "SUCCESS"
                       THEN RemoteAfterCommand(adm_remote, op, player, id)
                       ELSE adm_remote
      /\ adm_cache' = Purge(adm_cache, ban_invalidates(op), res = Raised)
      /\ adm_last' = [op |-> op, reply |-> res, pre |-> adm_cache]
      /\ UNCHANGED <<rotVars, cacheVars, logVars>>

\* lines 305-313 with 664-670: the removals are issued one entry after the
\* other; with `fails` the remote refuses the first one, which leaves
\* do_unban as a CommandFailedError.
do_unban(steam_id_64, fails) ==
  LET bans == get_bans(adm_cache, adm_remote)
      found == Matching(bans, steam_id_64)
      issued == IF fails THEN SubSeq(found, 1, 1) ELSE found
      done == IF fails THEN <<>> ELSE found
      funcs == {IF done[i].type = "temp" THEN "do_remove_temp_ban"
                ELSE "do_remove_perma_ban" : i \in 1..Len(done)}
  IN  /\ fails => found # <<>>
      /\ adm_remote' =
           [adm_remote EXCEPT
              !.temp = SelectSeq(@, LAMBDA b :
                         \A i \in 1..Len(done) :
                           done[i].type = "temp" => done[i].raw # b),
              !.perma = SelectSeq(@, LAMBDA b :
                          \A i \in 1..Len(done) :
                            done[i].type = "perma" => done[i].raw # b)]
      /\ adm_cache' =
           Purge(CacheAfterBans(adm_cache, adm_remote),
                 UNION {ban_invalidates(f) : f \in funcs}, FALSE)
      /\ adm_last' =
           [op |-> "do_unban", id |-> steam_id_64,
            status |-> IF fails THEN Raised ELSE "returned",
            bans |-> bans,
            removals |-> [i \in 1..Len(issued) |->
                            [func |-> IF issued[i].type = "temp"
                                      THEN "do_remove_temp_ban"
                                      ELSE "do_remove_perma_ban",
                             ban_log |-> issued[i].raw]]]
      /\ UNCHANGED <<rotVars, cacheVars, logVars>>

\* lines 315-322
get_ban(steam_id_64) ==
  /\ adm_cache' = CacheAfterBans(adm_cache, adm_remote)
  /\ adm_last' = [op |-> "get_ban", id |-> steam_id_64,
                  value |-> Matching(get_bans(adm_cache, adm_remote),
                                     steam_id_64)]
  /\ UNCHANGED adm_remote
  /\ UNCHANGED <<rotVars, cacheVars, logVars>>

InitBans == RotAtRest /\ CacheAtRest /\ LogAtRest /\ BansAtRest
SteamIds == {<<"222">>, <<"333">>}
BanCommandReplies == {"SUCCESS", Raised}

NextBans ==
  \/ \E k \in BanGetters : read_bans_getter(k)
  \/ \E player \in PlayerNames, res \in BanCommandReplies : do_kick(player, res)
  \/ \E op \in {"do_temp_ban", "do_perma_ban"}, player \in PlayerNames \cup {None},
        id \in SteamIds \cup {None}, res \in BanCommandReplies :
        do_ban(op, player, id, res)
  \/ \E id \in SteamIds, fails \in BOOLEAN : do_unban(id, fails)
  \/ \E id \in SteamIds : get_ban(id)

SpecBans == InitBans /\ [][NextBans]_vars

\* ====================================================================
\* Profanities: get_profanities and set_profanities (lines 584-586, 625-647)
\* ====================================================================
\* adm_remote.words is the set of words the remote bans; the cache holds the
\* list get_profanities last returned.
ProfanityKey == <<"get_profanities", "">>
Words == {<<"d", "n">>, <<"f">>, <<"s", "t">>}
WordLists ==
  {<<>>} \cup {<<w>> : w \in Words}
    \cup {<<v, w>> : v \in Words, w \in Words}
    \cup {<<<<"d", "n">>, <<"f">>, <<"s", "t">>>>}

\* ",".join(profanities)
RECURSIVE JoinComma(_)
JoinComma(profanities) ==
  IF profanities = <<>> THEN <<>>
  ELSE IF Len(profanities) = 1 THEN profanities[1]
  ELSE profanities[1] \o <<",">> \o JoinComma(Tail(profanities))
\* The words of a comma-separated list, as the remote takes them.
RECURSIVE SplitComma(_)
SplitComma(text) ==
  IF Len(split1(text, <<",">>)) = 2 THEN
    {split1(text, <<",">>)[1]} \cup SplitComma(split1(text, <<",">>)[2])
  ELSE {text}

\* (variant: every word of the new list is banned again)
added_all(current_, profanities) == Range(profanities)

\* line 629
added(current_, profanities) == Range(profanities) \ Range(current_)
\* line 628
removed(current_, profanities) == Range(current_) \ Range(profanities)

\* What the remote holds after the command.
WordsAfter(words, func, text) ==
  IF func = "do_unban_profanities" THEN words \ SplitComma(text)
  ELSE words \cup SplitComma(text)

\* lines 584-586: the remote hands the words out in some order.
get_profanities(order) ==
  /\ adm_cache' = Store(adm_cache, ProfanityKey,
                        ttl_cache(Entry(adm_cache, ProfanityKey),
                                  Returns(order), TRUE).entry)
  /\ adm_last' = [op |-> "get_profanities",
                  called |-> Entry(adm_cache, ProfanityKey) = <<>>,
                  value |-> ttl_cache(Entry(adm_cache, ProfanityKey),
                                      Returns(order), TRUE).value]
  /\ UNCHANGED adm_remote
  /\ UNCHANGED <<rotVars, cacheVars, logVars>>

\* lines 637-647: do_unban_profanities and do_ban_profanities; an argument
\* that is not a list is put into one.
do_profanities(func, is_list, profanities, res) ==
  LET text == JoinComma(IF is_list THEN profanities ELSE <<profanities>>)
  IN  /\ adm_remote' = IF res = Raised THEN adm_remote
                       ELSE [words |-> WordsAfter(adm_remote.words, func, text)]
      /\ adm_cache' = Purge(adm_cache, {ProfanityKey}, res = Raised)
      /\ adm_last' = [op |-> func, reply |-> res, text |-> text]
      /\ UNCHANGED <<rotVars, cacheVars, logVars>>

\* line 626: the cached list, or the remote's when nothing is cached.
CurrentProfanities(order) ==
  ttl_cache(Entry(adm_cache, ProfanityKey), Returns(order), TRUE).value

\* lines 625-635.  list(removed) and list(added) come in the order the sets
\* iterate; unban_res and ban_res are the outcomes of the two commands.
set_profanities(profanities, order, unban_res, ban_res) ==
  \E unban_order \in Orders(removed(CurrentProfanities(order), profanities)),
     ban_order \in Orders(added(CurrentProfanities(order), profanities)) :
  LET hit == Entry(adm_cache, ProfanityKey) # <<>>
      current_ == CurrentProfanities(order)
      read == Store(adm_cache, ProfanityKey,
                    ttl_cache(Entry(adm_cache, ProfanityKey),
                              Returns(order), TRUE).entry)
      unban == removed(current_, profanities) # {}
      ban == added(current_, profanities) # {} /\ (unban => unban_res # Raised)
      unbanned == unban /\ unban_res # Raised
      banned == ban /\ ban_res # Raised
      raised == (unban /\ unban_res = Raised) \/ (ban /\ ban_res = Raised)
      unban_text == JoinComma(unban_order)
      ban_text == JoinComma(ban_order)
      words1 == IF unbanned
                THEN WordsAfter(adm_remote.words, "do_unban_profanities",
                                unban_text)
                ELSE adm_remote.words
      words2 == IF banned
                THEN WordsAfter(words1, "do_ban_profanities", ban_text)
                ELSE words1
  IN  /\ ~unban => unban_res = "SUCCESS"
      /\ ~ban => ban_res = "SUCCESS"
      /\ adm_remote' = [words |-> words2]
      /\ adm_cache' = Purge(Purge(Purge(read, {ProfanityKey}, ~unbanned),
                                  {ProfanityKey}, ~banned),
                            {ProfanityKey}, raised)
      /\ adm_last' =
           [op |-> "set_profanities", profanities |-> profanities,
            status |-> IF raised THEN Raised ELSE "returned",
            value |-> IF raised THEN <<>> ELSE profanities,
            before |-> adm_remote.words, hit |-> hit,
            commands |->
              (IF unban THEN <<[func |-> "do_unban_profanities",
                                text |-> unban_text]>> ELSE <<>>)
              \o (IF ban THEN <<[func |-> "do_ban_profanities",
                                 text |-> ban_text]>> ELSE <<>>)]
      /\ UNCHANGED <<rotVars, cacheVars, logVars>>

ProfanitiesAtRest ==
  /\ adm_remote \in {[words |-> {}], [words |-> {<<"f">>}]}
  /\ adm_cache = NoEntries
  /\ adm_last = [op |-> "none"]
InitProfanities == RotAtRest /\ CacheAtRest /\ LogAtRest /\ ProfanitiesAtRest
ProfanityReplies == {"SUCCESS", Raised}

NextProfanities ==
  \/ \E order \in Orders(adm_remote.words) : get_profanities(order)
  \/ \E func \in {"do_unban_profanities", "do_ban_profanities"},
        profanities \in WordLists \ {<<>>}, res \in ProfanityReplies :
       do_profanities(func, TRUE, profanities, res)
  \/ \E func \in {"do_unban_profanities", "do_ban_profanities"},
        word \in Words, res \in ProfanityReplies :
       do_profanities(func, FALSE, word, res)
  \/ \E profanities \in WordLists, order \in Orders(adm_remote.words),
        unban_res \in ProfanityReplies, ban_res \in ProfanityReplies :
       set_profanities(profanities, order, unban_res, ban_res)

SpecProfanities == InitProfanities /\ [][NextProfanities]_vars

\* ====================================================================
\* Claims about the cached getters (SpecInfo, SpecChecked)
\* ====================================================================
\* The record the remote returned is that of another name than the one asked.
OtherName(c) == c.kind = "record" /\ c.name # adm_last.key[2]

\* C21: when the remote detail lookup for player P returns a record whose name
\* differs from P, get_player_info returns an empty result, with no name and
\* no steam id of the other player, and stores nothing; the next call for P
\* queries the remote again.
C21_InconsistentIdentity ==
  adm_last.op = "get_player_info" =>
    /\ (adm_last.called /\ OtherName(adm_last.reply)) =>
         /\ adm_last.status = "returned"
         /\ adm_last.value = <<>>
         /\ Entry(adm_cache, adm_last.key) = <<>>
    /\ OtherName(adm_last.again) => adm_last.called

\* A lookup for Bob answered with the record of Eve, then a lookup for Bob
\* that went to the remote and got the record of Bob.
C21_Witness ==
  /\ adm_last.op = "get_player_info"
  /\ adm_last.key[2] = <<"Bob">>
  /\ adm_last.again.kind = "record"
  /\ adm_last.again.name = <<"Eve">>
  /\ adm_last.called
  /\ adm_last.reply.kind = "record"
  /\ adm_last.reply.name = <<"Bob">>
  /\ adm_last.value # <<>>

\* The text of the remote does not pass the check of the getter.
Malformed(getter, reply) ==
  /\ reply.kind = "text"
  /\ CASE getter = "get_slots" -> ~slots_regexp(reply.text)
       [] getter = "get_map" -> ~map_regexp(reply.text)
       [] getter = "get_name" -> Len(reply.text) > MAX_SERV_NAME_LEN
       [] getter = "get_map_rotation" ->
            \E i \in 1..Len(reply.text) : ~map_regexp(reply.text[i])

SetSucceeded ==
  /\ adm_last.op = "do_save_setting"
  /\ adm_last.name \in settings
  /\ adm_last.reply = "SUCCESS"

\* C23: a successful set_<name> of one of the nine settings purges the cached
\* value of get_<name> and leaves the cached value of every other getter as
\* it was.
C23_SettingsIndependent ==
  SetSucceeded =>
    /\ adm_last.status = "returned"
    /\ Entry(adm_cache, SettingGetter(adm_last.name)) = <<>>
    /\ \A k \in SettingKeys \ {SettingGetter(adm_last.name)} :
         Entry(adm_cache, k) = Entry(adm_last.pre, k)

\* set_queue_length succeeded while queue_length, vip_slots_num and the
\* player list were cached.
C23_Witness ==
  /\ SetSucceeded
  /\ adm_last.name = "queue_length"
  /\ Entry(adm_last.pre, SettingGetter("queue_length")) # <<>>
  /\ Entry(adm_cache, SettingGetter("vip_slots_num")) # <<>>
  /\ Entry(adm_cache, <<"get_players", "">>) # <<>>

\* ====================================================================
\* Claims about do_randomize_map_rotation (SpecRandom)
\* ====================================================================
\* C25: from a rotation that is not empty, and for every list of maps, the
\* remote rotation is not empty after each remove that
\* do_randomize_map_rotation issues.
C25_RandomizeNeverEmpty ==
  pc = "random_removed" => remote_rotation # <<>>

\* ====================================================================
\* Claims about kicks and bans (SpecBans)
\* ====================================================================
Succeeded(op) == adm_last.op = op /\ adm_last.reply = "SUCCESS"
Purged(k) == Entry(adm_cache, <<k, "">>) = <<>>

\* C24: a successful do_kick purges the cached player list, a successful
\* do_temp_ban the cached player list and temp-ban list, a successful
\* do_perma_ban the cached player list and perma-ban list; the next
\* get_players, get_temp_bans and get_perma_bans, and get_bans with them,
\* return what the remote holds after the command.
C24_RemovalInvalidation ==
  /\ Succeeded("do_kick") => Purged("get_players")
  /\ Succeeded("do_temp_ban") =>
       (Purged("get_players") /\ Purged("get_temp_bans"))
  /\ Succeeded("do_perma_ban") =>
       (Purged("get_players") /\ Purged("get_perma_bans"))
  /\ \A k \in BanGetters :
       /\ adm_last.op = k[1] => adm_last.value = RemoteData(adm_remote, k)
       /\ Entry(adm_cache, k) # <<>> =>
            Entry(adm_cache, k)[1] = RemoteData(adm_remote, k)
  /\ adm_last.op = "get_ban" =>
       adm_last.value = Matching(get_bans(NoEntries, adm_remote), adm_last.id)

\* A temp ban succeeded while the player list and the temp-ban list were
\* cached.
C24_Witness ==
  /\ Succeeded("do_temp_ban")
  /\ Entry(adm_last.pre, <<"get_players", "">>) # <<>>
  /\ Entry(adm_last.pre, <<"get_temp_bans", "">>) # <<>>
  /\ Entry(adm_last.pre, <<"get_perma_bans", "">>) # <<>>
  /\ Entry(adm_cache, <<"get_perma_bans", "">>) # <<>>
  /\ adm_remote.temp # <<>>

\* The ban log is that of the id: the id, then " :".
LogOf(ban_log, id) ==
  /\ Len(ban_log) >= Len(id) + 2
  /\ SubSeq(ban_log, 1, Len(id)) = id
  /\ SubSeq(ban_log, Len(id) + 1, Len(id) + 2) = <<" ", ":">>
Unbanned == adm_last.op = "do_unban" /\ adm_last.status = "returned"
RemovalOf(b) ==
  [func |-> IF b.type = "temp" THEN "do_remove_temp_ban"
            ELSE "do_remove_perma_ban",
   ban_log |-> b.raw]

\* C27: do_unban(id) issues the temp-ban removal for every temp ban of the id
\* and the perma-ban removal for every perma ban of the id, and no removal for
\* a ban of another id; after it has returned, get_ban(id) is empty.
C27_UnbanRemovesAll ==
  Unbanned =>
    /\ adm_last.removals =
         [i \in 1..Len(SelectSeq(adm_last.bans,
                                 LAMBDA b : LogOf(b.raw, adm_last.id))) |->
            RemovalOf(SelectSeq(adm_last.bans,
                                LAMBDA b : LogOf(b.raw, adm_last.id))[i])]
    /\ Matching(get_bans(adm_cache, adm_remote), adm_last.id) = <<>>
    /\ \A i \in 1..Len(adm_remote.temp) :
         ~LogOf(adm_remote.temp[i], adm_last.id)
    /\ \A i \in 1..Len(adm_remote.perma) :
         ~LogOf(adm_remote.perma[i], adm_last.id)

\* The id had a temp ban and a perma ban, another id had a ban too.
C27_Witness ==
  /\ Unbanned
  /\ Len(adm_last.removals) = 2
  /\ adm_last.removals[1].func = "do_remove_temp_ban"
  /\ adm_last.removals[2].func = "do_remove_perma_ban"
  /\ Len(adm_last.bans) > 2
  /\ adm_remote.temp # <<>>

\* ====================================================================
\* Claim about the profanity list (SpecProfanities)
\* ====================================================================
ProfanitiesSet ==
  adm_last.op = "set_profanities" /\ adm_last.status = "returned"
CommandsOf(func) ==
  SelectSeq(adm_last.commands, LAMBDA c : c.func = func)
\* The words a command names, and that it names each of them once.
Names(c, words) ==
  \E l \in Orders(words) : c.text = JoinComma(l)

\* C26: set_profanities(P) leaves the remote with the words of P: one unban
\* that names exactly the words the remote had and P has not, one ban that
\* names exactly the words of P the remote had not, no command when the two
\* sets are equal, and no cached profanity list afterwards, so that the next
\* get_profanities asks the remote.
C26_ProfanitiesConverge ==
  /\ ProfanitiesSet =>
       /\ adm_remote.words = Range(adm_last.profanities)
       /\ adm_last.value = adm_last.profanities
       /\ Len(CommandsOf("do_unban_profanities")) =
            (IF adm_last.before \ Range(adm_last.profanities) = {}
             THEN 0 ELSE 1)
       /\ \A i \in 1..Len(CommandsOf("do_unban_profanities")) :
            Names(CommandsOf("do_unban_profanities")[i],
                  adm_last.before \ Range(adm_last.profanities))
       /\ Len(CommandsOf("do_ban_profanities")) =
            (IF Range(adm_last.profanities) \ adm_last.before = {}
             THEN 0 ELSE 1)
       /\ \A i \in 1..Len(CommandsOf("do_ban_profanities")) :
            Names(CommandsOf("do_ban_profanities")[i],
                  Range(adm_last.profanities) \ adm_last.before)
       /\ Len(adm_last.commands) =
            Len(CommandsOf("do_unban_profanities"))
              + Len(CommandsOf("do_ban_profanities"))
       /\ Entry(adm_cache, ProfanityKey) = <<>>
  /\ adm_last.op = "get_profanities" =>
       Range(adm_last.value) = adm_remote.words
  /\ Entry(adm_cache, ProfanityKey) # <<>> =>
       Range(Entry(adm_cache, ProfanityKey)[1]) = adm_remote.words

\* The list was cached; one word had to go, one had to come, one stayed.
C26_Witness ==
  /\ ProfanitiesSet
  /\ adm_last.hit
  /\ Len(adm_last.commands) = 2
  /\ Cardinality(adm_last.before) = 2
  /\ Cardinality(adm_remote.words) = 2
  /\ adm_last.before \cap adm_remote.words # {}

====
